---- MODULE Spec2Model ----
(***************************************************************************)
(* EcoFood backend: the planning job runner (agent/a2a/plan_runner.py),    *)
(* the job / event store (services/plan_jobs.py), the plan store           *)
(* (services/meal_plans.py) and the job API with its event stream          *)
(* (routers/plan_jobs.py).                                                 *)
(*                                                                         *)
(* Every coroutine is cut at its awaits on the database or on the          *)
(* workflow: the code between two awaits runs atomically on the event      *)
(* loop, and any other task may run at an await.  A read of a row that     *)
(* never changes (the existence of a job, its household) is folded into    *)
(* the step that follows it.                                               *)
(*                                                                         *)
(* Text is a tuple of strings.  An exception message is a tuple of         *)
(* one-character strings, so that lower() and the substring tests of       *)
(* _is_llm_empty_plan are computed; an f-string is the tuple of its parts. *)
(***************************************************************************)
EXTENDS Integers, Sequences, FiniteSets, TLC

\* ------------------------------------------------------------------ bounds

\* Days of one job whose single-day workflow run may come up empty.
MaxEmptyDays == 2

\* Cancel requests (DELETE /plan-jobs/{id}) the API receives.
MaxCancels == 1

\* The members of a household, at most.
MaxMembers == 2

\* The plan items of a shopping list, at most.
MaxItems == 2

\* The entries of a plan the model returns to the chef, at most.
MaxRaw == 4

\* ------------------------------------------------------------------ text

None == <<>>

Text(s) == <<s>>

LowerChar(c) ==
  CASE c = "A" -> "a" [] c = "B" -> "b" [] c = "C" -> "c" [] c = "D" -> "d"
    [] c = "E" -> "e" [] c = "F" -> "f" [] c = "G" -> "g" [] c = "H" -> "h"
    [] c = "I" -> "i" [] c = "J" -> "j" [] c = "K" -> "k" [] c = "L" -> "l"
    [] c = "M" -> "m" [] c = "N" -> "n" [] c = "O" -> "o" [] c = "P" -> "p"
    [] c = "Q" -> "q" [] c = "R" -> "r" [] c = "S" -> "s" [] c = "T" -> "t"
    [] c = "U" -> "u" [] c = "V" -> "v" [] c = "W" -> "w" [] c = "X" -> "x"
    [] c = "Y" -> "y" [] c = "Z" -> "z" [] OTHER -> c

Lower(s) == [i \in 1..Len(s) |-> LowerChar(s[i])]

\* Python's `needle in haystack` on strings.
Contains(haystack, needle) ==
  \E i \in 1..(Len(haystack) - Len(needle) + 1) :
    SubSeq(haystack, i, i + Len(needle) - 1) = needle

\* "did not return a plan"
PhraseDidNotReturn ==
  <<"d","i","d"," ","n","o","t"," ","r","e","t","u","r","n"," ","a"," ","p","l","a","n">>

\* "empty plan"
PhraseEmptyPlan ==
  <<"e","m","p","t","y"," ","p","l","a","n">>

\* "unable to parse gemini json"
PhraseUnableToParse ==
  <<"u","n","a","b","l","e"," ","t","o"," ","p","a","r","s","e"," ","g","e","m","i","n","i"," ",
    "j","s","o","n">>

\* "Unable to parse Gemini JSON."
MsgUnableToParse ==
  <<"U","n","a","b","l","e"," ","t","o"," ","p","a","r","s","e"," ","G","e","m","i","n","i"," ",
    "J","S","O","N",".">>

\* "Gemini menu generation failed: Gemini returned an empty response."
MsgEmptyResponse ==
  <<"G","e","m","i","n","i"," ","m","e","n","u"," ","g","e","n","e","r","a","t","i","o","n"," ",
    "f","a","i","l","e","d",":"," ","G","e","m","i","n","i"," ","r","e","t","u","r","n","e","d",
    " ","a","n"," ","e","m","p","t","y"," ","r","e","s","p","o","n","s","e",".">>

\* "'NoneType' object has no attribute 'members'"
MsgNoMembers ==
  <<"'","N","o","n","e","T","y","p","e","'"," ","o","b","j","e","c","t"," ","h","a","s"," ","n",
    "o"," ","a","t","t","r","i","b","u","t","e"," ","'","m","e","m","b","e","r","s","'">>

\* "database is locked"
MsgSaveFailed ==
  <<"d","a","t","a","b","a","s","e"," ","i","s"," ","l","o","c","k","e","d">>

\* The messages the workflow is seen to raise.
WorkflowErrors == {MsgUnableToParse, MsgEmptyResponse}

\* A test that takes every exception for an empty plan.
IsLlmEmptyPlanAlways(exc) == TRUE

_is_llm_empty_plan(exc) ==
  LET message == Lower(exc)
  IN  \/ Contains(message, PhraseDidNotReturn)
      \/ Contains(message, PhraseEmptyPlan)
      \/ Contains(message, PhraseUnableToParse)

\* ------------------------------------------------------------------ plans

DAY_ORDER == <<"Mon", "Tue", "Wed", "Thu", "Fri", "Sat", "Sun">>

MEAL_SLOTS == <<"Breakfast", "Lunch", "Dinner">>

DAY_INDEX ==
  [d \in {"Mon", "Tue", "Wed", "Thu", "Fri", "Sat", "Sun"} |->
    CASE d = "Mon" -> 0 [] d = "Tue" -> 1 [] d = "Wed" -> 2 [] d = "Thu" -> 3
      [] d = "Fri" -> 4 [] d = "Sat" -> 5 [] d = "Sun" -> 6]

Range(s) == {s[i] : i \in 1..Len(s)}

RECURSIVE Filter(_, _)
\* [x for x in s if x in keep], keeping the order.
Filter(s, keep) ==
  IF s = <<>> THEN <<>>
  ELSE IF Head(s) \in keep THEN <<Head(s)>> \o Filter(Tail(s), keep)
       ELSE Filter(Tail(s), keep)

\* [entry for entry in plan if entry.get("day") == day]
\* A selection that takes every entry of the plan for the day's.
EntriesOfAnyDay(plan, day) == plan

EntriesForDay(plan, day) == Filter(plan, {e \in Range(plan) : e.day = day})

Entry(day, meal, title) == [day |-> day, meal |-> meal, title |-> title]

\* What generate() returns, as far as the runner reads it:
\* result["final_plan"]["plan"] and result["timeline"].
Result(plan) ==
  [final_plan |-> [plan |-> plan],
   timeline |->
     <<[agent |-> "household-profiler", stage |-> "profile.ready", payload |-> None],
       [agent |-> "plan-synthesizer", stage |-> "plan.final", payload |-> [plan |-> plan]]>>]

NextDay(day) == DAY_ORDER[((DAY_INDEX[day] + 1) % 7) + 1]

\* Plans a run asked for `day` alone comes back with: the day's meals, or
\* meals labelled with another day only.
SingleDayPlans(day) ==
  {<<Entry(day, "Lunch", "single"), Entry(day, "Dinner", "single")>>,
   <<Entry(NextDay(day), "Dinner", "single")>>}

\* Plans a whole-week run comes back with: one dinner a day, with or without
\* the day the runner is after.
WeekPlans(day) ==
  {[i \in 1..7 |-> Entry(DAY_ORDER[i], "Dinner", "week")],
   Filter([i \in 1..7 |-> Entry(DAY_ORDER[i], "Dinner", "week")],
          {Entry(DAY_ORDER[i], "Dinner", "week") : i \in {k \in 1..7 : DAY_ORDER[k] # day}})}

\* An annotation that numbers every segment from zero.
AnnotateFromZero(segment, job_id, day, start_sequence, origin) ==
  [offset \in 1..Len(segment) |->
    [agent |-> segment[offset].agent,
     stage |-> segment[offset].stage,
     payload |-> segment[offset].payload,
     job_id |-> job_id,
     day |-> day,
     sequence |-> offset - 1,
     origin |-> origin]]

_annotate_timeline(segment, job_id, day, start_sequence, origin) ==
  [offset \in 1..Len(segment) |->
    [agent |-> segment[offset].agent,
     stage |-> segment[offset].stage,
     payload |-> segment[offset].payload,
     job_id |-> job_id,
     day |-> day,
     sequence |-> start_sequence + (offset - 1),
     origin |-> origin]]

\* ------------------------------------------------------------------ households

\* meal_schedule: day -> slot -> bool, None when the member has no overrides.
Member(id, breakfast, lunch, dinner, schedule) ==
  [id |-> id, eats_breakfast |-> breakfast, eats_lunch |-> lunch,
   eats_dinner |-> dinner, meal_schedule |-> schedule]

\* The households table: household 1 exists, no other does.
Households ==
  [h \in {1} |->
    [members |->
      <<Member(1, TRUE, FALSE, TRUE, None),
        Member(2, FALSE, TRUE, TRUE,
               [d \in {"Mon", "Tue"} |->
                 IF d = "Mon" THEN [s \in {"Lunch"} |-> FALSE]
                 ELSE [s \in {"Breakfast"} |-> TRUE]])>>]]

HouseholdIds == {1, 2}

_member_attends_slot(member, day_label, slot) ==
  LET schedule == member.meal_schedule
      base_allowed ==
        CASE slot = "Breakfast" -> member.eats_breakfast
          [] slot = "Lunch" -> member.eats_lunch
          [] slot = "Dinner" -> member.eats_dinner
          [] OTHER -> TRUE
  IN  IF day_label \in DOMAIN schedule /\ slot \in DOMAIN schedule[day_label]
      THEN schedule[day_label][slot] /\ base_allowed
      ELSE base_allowed

\* (day, slot) -> the ids of the members attending, in member order; a key
\* with no attendee is absent from the dict, which .get() reads as [].
_build_slot_attendees(household) ==
  [key \in {<<d, s>> : d \in Range(DAY_ORDER), s \in Range(MEAL_SLOTS)} |->
    LET ids == [i \in 1..Len(household.members) |-> household.members[i].id]
    IN  Filter(ids, {household.members[i].id : i \in
                       {k \in 1..Len(household.members) :
                          _member_attends_slot(household.members[k], key[1], key[2])}})]

_normalize_attendee_map(raw) ==
  [key \in {k \in DOMAIN raw : raw[k] # <<>>} |-> raw[key]]

\* ------------------------------------------------------------------ state

VARIABLES
  jobs,       \* planning_jobs: id -> row
  events,     \* planning_job_events, in id order
  plans,      \* meal_plans with their entries
  planSeq,    \* the last id the meal_plans table handed out
  runner,     \* the run_plan_job task of each job: position and locals
  cancels,    \* the DELETE /plan-jobs/{id} requests, counted by position
  stream,     \* the GET /plan-jobs/{id}/events/stream generator
  emptyLeft,  \* days whose single-day run may still come up empty
  wf,         \* one call of MealPlanningWorkflow.generate
  dialect,    \* the database behind DATABASE_URL
  orphans,    \* meal_plan_entries rows whose plan row is gone
  architect,  \* one call of MealArchitectAgent.run: inputs and locals
  tool,       \* one call of an MCP tool: name, input and output
  context     \* one SessionContext and a snapshot taken of it

\* The state of the agent package, which the job runner, the cancel
\* requests and the stream leave alone.
agentVars == <<wf>>

\* The state of the job runner, the job API and the stores.
jobVars == <<jobs, events, plans, planSeq, runner, cancels, stream, emptyLeft>>

\* The database engine and the rows no plan owns.
dbVars == <<dialect, orphans>>

\* The state of single agent, tool and context calls.
toolVars == <<architect, tool, context>>

vars == <<jobs, events, plans, planSeq, runner, cancels, stream, emptyLeft, wf, dialect, orphans, architect, tool, context>>

TerminalStatuses == {"completed", "failed", "cancelled"}

WEEK_START == 0

Event(id, job_id, stage, message, payload) ==
  [id |-> id, job_id |-> job_id, stage |-> stage, message |-> message, payload |-> payload]

\* add_event: the store numbers the row on insert.
add_event(table, job_id, stage, message, payload) ==
  Append(table, Event(Len(table) + 1, job_id, stage, message, payload))

\* The query with id >= last_event_id.
list_events_from(table, job_id, last_event_id) ==
  Filter(table, {e \in Range(table) : e.job_id = job_id /\ e.id >= last_event_id})

\* list_events_since: rows of the job with id > last_event_id, ascending.
list_events_since(table, job_id, last_event_id) ==
  Filter(table, {e \in Range(table) : e.job_id = job_id /\ e.id > last_event_id})

JobEvents(j) == Filter(events, {e \in Range(events) : e.job_id = j})

\* create_job: a row in status pending.
NewJob(household_id) ==
  [household_id |-> household_id, week_start |-> WEEK_START,
   status |-> "pending", plan_id |-> 0]

\* The locals of one run_plan_job task.
Task(pc) ==
  [pc |-> pc, day |-> 0, slot_attendees |-> None,
   aggregated_entries |-> <<>>, aggregated_timeline |-> <<>>, timeline_sequence |-> 0,
   annotated_segments |-> <<>>, day_entries |-> <<>>,
   error |-> None, after |-> None, plan_id |-> 0, runs |-> <<>>]

NoCancels == [commit |-> 0, event |-> 0, done |-> 0]

ClosedStream ==
  [pc |-> "closed", job_id |-> 0, status |-> "", last_event_id |-> 0, delivered |-> <<>>]

\* No call of generate() is under way.
IdleWorkflow ==
  [pc |-> "idle", days |-> None, log |-> <<>>, results |-> <<>>, tasks |-> <<>>,
   review_results |-> <<>>, raised |-> None, timeline |-> None,
   ctx |-> <<>>, snapshot |-> None]

AgentsIdle == wf = IdleWorkflow

\* No agent, tool or context call is under way.
IdleCall == [pc |-> "idle"]
ToolsIdle == architect = IdleCall /\ tool = IdleCall /\ context = IdleCall

\* DATABASE_URL names a PostgreSQL server or, when it is not set, a SQLite
\* file.
Dialects == {"sqlite", "postgresql"}
DefaultDialect == "sqlite"

\* A database with history: job 1 ran for a household that was gone and
\* failed, and the week already has a plan saved by POST /meal-plans; job 2
\* has just been created.
UsedDb(household_id) ==
  /\ jobs = <<[NewJob(2) EXCEPT !.status = "failed"], NewJob(household_id)>>
  /\ events = <<Event(1, 1, "started", Text("Planning job started"), None),
                Event(2, 1, "error", MsgNoMembers, None)>>
  /\ plans = {[id |-> 1, household_id |-> 1, week_start |-> WEEK_START,
               session_id |-> Text("plan-1"), timeline |-> <<>>,
               entries |-> <<[day |-> WEEK_START, slot |-> "Dinner", title |-> "old",
                              attendee_ids |-> <<1, 2>>]>>]}
  /\ planSeq = 1
  /\ orphans = <<>>
  /\ runner = <<Task("done"), Task("start")>>

Init ==
  /\ \E household_id \in HouseholdIds : UsedDb(household_id)
  /\ dialect \in Dialects
  /\ cancels = NoCancels
  /\ stream = ClosedStream
  /\ emptyLeft = MaxEmptyDays
  /\ AgentsIdle
  /\ ToolsIdle

JobIds == DOMAIN jobs

\* The job create_plan_job has just created.
NewestJob == Len(jobs)

Day(j) == DAY_ORDER[runner[j].day]

\* ------------------------------------------------------------------ run_plan_job

\* mark_job_started: the row is written whatever its status is.
MarkJobStarted(j) ==
  /\ runner[j].pc = "start"
  /\ jobs' = [jobs EXCEPT ![j].status = "running"]
  /\ runner' = [runner EXCEPT ![j].pc = "emit_started"]
  /\ UNCHANGED <<events, plans, planSeq, cancels, stream, emptyLeft>>
  /\ UNCHANGED <<agentVars, dbVars, toolVars>>

EmitStarted(j) ==
  /\ runner[j].pc = "emit_started"
  /\ events' = add_event(events, j, "started", Text("Planning job started"), None)
  /\ runner' = [runner EXCEPT ![j].pc = "resolve"]
  /\ UNCHANGED <<jobs, plans, planSeq, cancels, stream, emptyLeft>>
  /\ UNCHANGED <<agentVars, dbVars, toolVars>>

\* mark_job_failed(error), then the error event the caller adds, if it adds
\* one: the task is left before the first of these statements.
Fail(task, error, after) ==
  [task EXCEPT !.pc = "failed", !.error = error, !.after = after]

\* run_plan_job without its except clause: the exception ends the task.
RaiseUncaught(task, exc) == [task EXCEPT !.pc = "done", !.error = exc]

\* An exception that leaves _execute_planning: run_plan_job catches it and
\* calls mark_job_failed(str(exc)).
Raise(task, exc) == Fail(task, exc, None)

\* A loop that goes over the same day again.
SameDayAgain(task) ==
  [task EXCEPT !.pc = "day_check", !.annotated_segments = <<>>, !.day_entries = <<>>]

\* The step to the next day, or out of the loop after the last one.
NextIteration(task) ==
  [task EXCEPT
    !.pc = IF task.day < Len(DAY_ORDER) THEN "day_check" ELSE "save_check",
    !.day = IF task.day < Len(DAY_ORDER) THEN @ + 1 ELSE @,
    !.annotated_segments = <<>>,
    !.day_entries = <<>>]

\* A step of the task that touches no table (a workflow call and the code
\* after it, the household lookup, a save that raises) runs on to the next
\* database statement, which `task.pc` names, and that statement commits:
\* the planned event, the fallback event, or the status of mark_job_failed.
\* "retry_week" and "day_check" name no statement; the task stops there.
Commit(j, task) ==
  CASE task.pc = "emit_planned" ->
         /\ events' = add_event(events, j, "planned", <<DAY_ORDER[task.day], " planned">>,
                                [day |-> DAY_ORDER[task.day], entries |-> task.day_entries,
                                 phase |-> "complete"])
         /\ runner' = [runner EXCEPT ![j] = NextIteration(task)]
         /\ UNCHANGED jobs
    [] task.pc = "emit_fallback" ->
         /\ events' = add_event(events, j, "fallback",
                                <<"Fallback triggered for ", DAY_ORDER[task.day]>>,
                                [day |-> DAY_ORDER[task.day]])
         /\ runner' = [runner EXCEPT ![j] = [task EXCEPT !.pc = "fallback_week"]]
         /\ UNCHANGED jobs
    [] task.pc = "failed" ->
         /\ jobs' = [jobs EXCEPT ![j].status = "failed"]
         /\ runner' = [runner EXCEPT ![j] = [task EXCEPT !.pc = "failed_event"]]
         /\ UNCHANGED events
    [] OTHER ->
         /\ runner' = [runner EXCEPT ![j] = task]
         /\ UNCHANGED <<jobs, events>>

\* A lookup that takes a household that is gone for one without members.
ResolveHouseholdEmpty(j) ==
  /\ runner[j].pc = "resolve"
  /\ Commit(j, [runner[j] EXCEPT
                 !.pc = "day_check",
                 !.day = 1,
                 !.slot_attendees =
                   IF jobs[j].household_id \in DOMAIN Households
                   THEN _build_slot_attendees(Households[jobs[j].household_id])
                   ELSE _build_slot_attendees([members |-> <<>>])])
  /\ UNCHANGED <<plans, planSeq, cancels, stream, emptyLeft>>
  /\ UNCHANGED <<agentVars, dbVars, toolVars>>

\* _execute_planning up to the day loop.  A household that is gone makes
\* household.members raise.
ResolveHousehold(j) ==
  /\ runner[j].pc = "resolve"
  /\ Commit(j,
       IF jobs[j].household_id \in DOMAIN Households
       THEN [runner[j] EXCEPT
              !.pc = "day_check",
              !.day = 1,
              !.slot_attendees = _build_slot_attendees(Households[jobs[j].household_id])]
       ELSE Raise(runner[j], MsgNoMembers))
  /\ UNCHANGED <<plans, planSeq, cancels, stream, emptyLeft>>
  /\ UNCHANGED <<agentVars, dbVars, toolVars>>

\* The day loop without the test of current_job.status.
DayCheckUnconditional(j) ==
  /\ runner[j].pc = "day_check"
  /\ runner' = [runner EXCEPT ![j].pc = "planning"]
  /\ UNCHANGED <<jobs, events, plans, planSeq, cancels, stream, emptyLeft>>
  /\ UNCHANGED <<agentVars, dbVars, toolVars>>

\* The status check at a day boundary.
DayCheck(j) ==
  /\ runner[j].pc = "day_check"
  /\ runner' = [runner EXCEPT
       ![j].pc = IF jobs[j].status = "cancelled" THEN "cancelled_day" ELSE "planning"]
  /\ UNCHANGED <<jobs, events, plans, planSeq, cancels, stream, emptyLeft>>
  /\ UNCHANGED <<agentVars, dbVars, toolVars>>

EmitCancelledBeforeDay(j) ==
  /\ runner[j].pc = "cancelled_day"
  /\ events' = add_event(events, j, "cancelled", <<"Cancelled before ", Day(j)>>,
                         [day |-> Day(j)])
  /\ runner' = [runner EXCEPT ![j].pc = "done"]
  /\ UNCHANGED <<jobs, plans, planSeq, cancels, stream, emptyLeft>>
  /\ UNCHANGED <<agentVars, dbVars, toolVars>>

EmitPlanning(j) ==
  /\ runner[j].pc = "planning"
  /\ events' = add_event(events, j, "planning", <<"Planning ", Day(j)>>,
                         [day |-> Day(j), phase |-> "start"])
  /\ runner' = [runner EXCEPT ![j].pc = "workflow"]
  /\ UNCHANGED <<jobs, plans, planSeq, cancels, stream, emptyLeft>>
  /\ UNCHANGED <<agentVars, dbVars, toolVars>>

\* Lines 158-167 and 216-217: what the runner does with `result`, the value
\* either of the single-day run or of the retry in the except branch.
TakeResult(task, j, result) ==
  LET day == DAY_ORDER[task.day]
      day_entries == EntriesForDay(result.final_plan.plan, day)
      primary_segment ==
        _annotate_timeline(result.timeline, j, day, task.timeline_sequence, "primary")
      counted == [task EXCEPT
        !.timeline_sequence = @ + Len(primary_segment),
        !.annotated_segments = primary_segment,
        !.day_entries = day_entries]
  IN  IF day_entries = <<>>
      THEN [counted EXCEPT !.pc = "emit_fallback"]
      ELSE [counted EXCEPT
             !.pc = "emit_planned",
             !.aggregated_entries = @ \o day_entries,
             !.aggregated_timeline = @ \o primary_segment]

\* Lines 192-214: what the runner does with `fallback_result`.
TakeFallbackResult(task, j, fallback_result) ==
  LET day == DAY_ORDER[task.day]
      fallback_entries == EntriesForDay(fallback_result.final_plan.plan, day)
      fallback_segment ==
        _annotate_timeline(fallback_result.timeline, j, day, task.timeline_sequence,
                           "fallback")
      counted == [task EXCEPT
        !.timeline_sequence = @ + Len(fallback_segment),
        !.annotated_segments = @ \o fallback_segment,
        !.day_entries = fallback_entries]
  IN  IF fallback_entries = <<>>
      THEN Fail(counted, <<"No meals for ", day>>,
                [message |-> <<"No meals for ", day>>, payload |-> [day |-> day]])
      ELSE [counted EXCEPT
             !.pc = "emit_planned",
             !.aggregated_entries = @ \o fallback_entries,
             !.aggregated_timeline = @ \o counted.annotated_segments]

\* A call of workflow.generate, kept on record: `days` is [day] or None,
\* `raised` the message of the exception it ended with, None if it returned.
Called(task, days, raised) ==
  [task EXCEPT
    !.runs = Append(@, [day |-> DAY_ORDER[task.day], days |-> days, raised |-> raised])]

DayFailed(task, exc) ==
  Fail(task, exc, [message |-> <<DAY_ORDER[task.day], " failed">>,
                   payload |-> [error |-> exc]])

\* workflow.generate(request) with days=[day], lines 114-118 and 146-169.
RunSingleDay(j) ==
  /\ runner[j].pc = "workflow"
  /\ \/ \E exc \in WorkflowErrors :
          LET task == Called(runner[j], <<Day(j)>>, exc)
          IN  IF _is_llm_empty_plan(exc)
              THEN /\ emptyLeft > 0
                   /\ emptyLeft' = emptyLeft - 1
                   /\ Commit(j, [task EXCEPT !.pc = "retry_week"])
              ELSE /\ Commit(j, DayFailed(task, exc))
                   /\ UNCHANGED emptyLeft
     \/ \E plan \in SingleDayPlans(Day(j)) :
          LET task == Called(runner[j], <<Day(j)>>, None)
          IN  /\ Commit(j, TakeResult(task, j, Result(plan)))
              /\ IF EntriesForDay(plan, Day(j)) = <<>>
                 THEN emptyLeft > 0 /\ emptyLeft' = emptyLeft - 1
                 ELSE UNCHANGED emptyLeft
  /\ UNCHANGED <<plans, planSeq, cancels, stream>>
  /\ UNCHANGED <<agentVars, dbVars, toolVars>>

\* Lines 119-145: the single-day run raised an empty-plan error and the
\* whole week is asked for.
RetryWholeWeek(j) ==
  /\ runner[j].pc = "retry_week"
  /\ \/ \E fallback_exc \in WorkflowErrors :
          Commit(j, DayFailed(Called(runner[j], None, fallback_exc), fallback_exc))
     \/ \E plan \in WeekPlans(Day(j)) :
          Commit(j, TakeResult(Called(runner[j], None, None), j, Result(plan)))
  /\ UNCHANGED <<plans, planSeq, cancels, stream, emptyLeft>>
  /\ UNCHANGED <<agentVars, dbVars, toolVars>>

\* Lines 179-214: the whole-week run after a result without entries for the
\* day.  It is outside any try: what it raises leaves _execute_planning.
RunFallbackWeek(j) ==
  /\ runner[j].pc = "fallback_week"
  /\ \/ \E exc \in WorkflowErrors :
          Commit(j, Raise(Called(runner[j], None, exc), exc))
     \/ \E plan \in WeekPlans(Day(j)) :
          Commit(j, TakeFallbackResult(Called(runner[j], None, None), j, Result(plan)))
  /\ UNCHANGED <<plans, planSeq, cancels, stream, emptyLeft>>
  /\ UNCHANGED <<agentVars, dbVars, toolVars>>

\* The status check before saving.
SaveCheck(j) ==
  /\ runner[j].pc = "save_check"
  /\ runner' = [runner EXCEPT
       ![j].pc = IF jobs[j].status = "cancelled" THEN "cancelled_save" ELSE "save"]
  /\ UNCHANGED <<jobs, events, plans, planSeq, cancels, stream, emptyLeft>>
  /\ UNCHANGED <<agentVars, dbVars, toolVars>>

EmitCancelledBeforeSaving(j) ==
  /\ runner[j].pc = "cancelled_save"
  /\ events' = add_event(events, j, "cancelled", Text("Cancelled before saving"), None)
  /\ runner' = [runner EXCEPT ![j].pc = "done"]
  /\ UNCHANGED <<jobs, plans, planSeq, cancels, stream, emptyLeft>>
  /\ UNCHANGED <<agentVars, dbVars, toolVars>>

\* attendee_map.get((day_label, slot), [])
Attendees(attendee_map, day_label, slot) ==
  IF <<day_label, slot>> \in DOMAIN attendee_map THEN attendee_map[<<day_label, slot>>]
  ELSE <<>>

RECURSIVE PlanEntries(_, _, _)
\* The MealPlanEntry rows save_plan adds: items without attendees are skipped.
PlanEntries(plan_items, week_start, attendee_map) ==
  IF plan_items = <<>> THEN <<>>
  ELSE LET item == Head(plan_items)
           attendees == Attendees(attendee_map, item.day, item.meal)
           rest == PlanEntries(Tail(plan_items), week_start, attendee_map)
       IN  IF attendees = <<>> THEN rest
           ELSE <<[day |-> week_start + DAY_INDEX[item.day], slot |-> item.meal,
                   title |-> item.title, attendee_ids |-> attendees]>> \o rest

\* The plans save_plan selects for the household and week.
ExistingPlan(store, household_id, week_start) ==
  {p \in store : p.household_id = household_id /\ p.week_start = week_start}

\* db.delete(existing_plan) on a plan whose entries are not loaded:
\* passive_deletes leaves them to ON DELETE CASCADE, which PostgreSQL applies
\* and a SQLite connection without PRAGMA foreign_keys does not.
delete_plan(rows, existing, engine) ==
  IF existing = {} \/ engine = "postgresql" THEN rows
  ELSE LET plan == CHOOSE p \in existing : TRUE
       IN  rows \o [i \in 1..Len(plan.entries) |->
                      [plan_id |-> plan.id, entry |-> plan.entries[i]]]

\* The id the insert into meal_plans gets: the next value of the sequence,
\* or on SQLite one more than the largest id left in the table.
NextPlanId(store, seq, engine) ==
  IF engine = "postgresql" THEN seq + 1
  ELSE IF store = {} THEN 1
  ELSE (CHOOSE id \in {p.id : p \in store} : \A p \in store : p.id <= id) + 1

\* save_plan: the plan of the household and week is deleted and a new one
\* takes its place, all in one commit; the plan is read back with every
\* entry that holds its id.
save_plan(store, rows, id, household_id, week_start, session_id, plan_items, timeline, attendee_map) ==
  LET held == Filter(rows, {row \in Range(rows) : row.plan_id = id})
  IN  (store \ ExistingPlan(store, household_id, week_start))
        \cup {[id |-> id, household_id |-> household_id, week_start |-> week_start,
               session_id |-> session_id, timeline |-> timeline,
               entries |-> [i \in 1..Len(held) |-> held[i].entry]
                             \o PlanEntries(plan_items, week_start, attendee_map)]}

\* save_plan commits, or raises and the session rolls back.
SavePlan(j) ==
  /\ runner[j].pc = "save"
  /\ \/ LET existing == ExistingPlan(plans, jobs[j].household_id, jobs[j].week_start)
            rows == delete_plan(orphans, existing, dialect)
            id == NextPlanId(plans \ existing, planSeq, dialect)
        IN  /\ plans' = save_plan(plans, rows, id, jobs[j].household_id, jobs[j].week_start,
                                  <<"job-", j, "-final">>, runner[j].aggregated_entries,
                                  runner[j].aggregated_timeline,
                                  _normalize_attendee_map(runner[j].slot_attendees))
            /\ orphans' = Filter(rows, {row \in Range(rows) : row.plan_id # id})
            /\ planSeq' = id
            /\ runner' = [runner EXCEPT ![j].pc = "mark_completed", ![j].plan_id = id]
            /\ UNCHANGED <<jobs, events>>
     \/ /\ Commit(j, Raise(runner[j], MsgSaveFailed))
        /\ UNCHANGED <<plans, planSeq, orphans>>
  /\ UNCHANGED <<cancels, stream, emptyLeft, dialect>>
  /\ UNCHANGED <<agentVars, toolVars>>

\* A mark_job_completed that writes the status and leaves plan_id alone.
MarkCompletedWithoutPlan(j) ==
  /\ runner[j].pc = "mark_completed"
  /\ jobs' = [jobs EXCEPT ![j].status = "completed"]
  /\ runner' = [runner EXCEPT ![j].pc = "emit_completed"]
  /\ UNCHANGED <<events, plans, planSeq, cancels, stream, emptyLeft>>
  /\ UNCHANGED <<agentVars, dbVars, toolVars>>

\* mark_job_completed: the row is written whatever its status is.
MarkJobCompleted(j) ==
  /\ runner[j].pc = "mark_completed"
  /\ jobs' = [jobs EXCEPT ![j].status = "completed", ![j].plan_id = runner[j].plan_id]
  /\ runner' = [runner EXCEPT ![j].pc = "emit_completed"]
  /\ UNCHANGED <<events, plans, planSeq, cancels, stream, emptyLeft>>
  /\ UNCHANGED <<agentVars, dbVars, toolVars>>

EmitCompleted(j) ==
  /\ runner[j].pc = "emit_completed"
  /\ events' = add_event(events, j, "completed", Text("Planning complete"),
                         [plan_id |-> runner[j].plan_id,
                          entry_count |-> Len(runner[j].aggregated_entries)])
  /\ runner' = [runner EXCEPT ![j].pc = "done"]
  /\ UNCHANGED <<jobs, plans, planSeq, cancels, stream, emptyLeft>>
  /\ UNCHANGED <<agentVars, dbVars, toolVars>>

\* mark_job_failed, second await: the error event with the error text.
MarkJobFailedEvent(j) ==
  /\ runner[j].pc = "failed_event"
  /\ events' = add_event(events, j, "error", runner[j].error, None)
  /\ runner' = [runner EXCEPT
       ![j].pc = IF runner[j].after = None THEN "done" ELSE "error_event"]
  /\ UNCHANGED <<jobs, plans, planSeq, cancels, stream, emptyLeft>>
  /\ UNCHANGED <<agentVars, dbVars, toolVars>>

\* The error event _execute_planning adds after mark_job_failed.
EmitError(j) ==
  /\ runner[j].pc = "error_event"
  /\ events' = add_event(events, j, "error", runner[j].after.message,
                         runner[j].after.payload)
  /\ runner' = [runner EXCEPT ![j].pc = "done"]
  /\ UNCHANGED <<jobs, plans, planSeq, cancels, stream, emptyLeft>>
  /\ UNCHANGED <<agentVars, dbVars, toolVars>>

\* ------------------------------------------------------------------ DELETE /plan-jobs/{id}

\* The requests are told apart by nothing but how far they have got:
\* `cancels` counts them by position.
CancelCount == cancels.commit + cancels.event + cancels.done

\* cancel_plan_job reads the job.  cancel_job reads it again through the same
\* session, which hands back the object it already holds: both tests are
\* made on the status read here.  409 for a completed or failed job; 204 and
\* nothing written for a cancelled one.
CancelRead(j) ==
  /\ CancelCount < MaxCancels
  /\ cancels' =
       IF jobs[j].status \in TerminalStatuses
       THEN [cancels EXCEPT !.done = @ + 1]
       ELSE [cancels EXCEPT !.commit = @ + 1]
  /\ UNCHANGED <<jobs, events, plans, planSeq, runner, stream, emptyLeft>>
  /\ UNCHANGED <<agentVars, dbVars, toolVars>>

\* cancel_job, the commit of the status.
CancelCommit(j) ==
  /\ cancels.commit > 0
  /\ jobs' = [jobs EXCEPT ![j].status = "cancelled"]
  /\ cancels' = [cancels EXCEPT !.commit = @ - 1, !.event = @ + 1]
  /\ UNCHANGED <<events, plans, planSeq, runner, stream, emptyLeft>>
  /\ UNCHANGED <<agentVars, dbVars, toolVars>>

\* cancel_job, the cancelled event.
CancelEvent(j) ==
  /\ cancels.event > 0
  /\ events' = add_event(events, j, "cancelled", Text("Cancelled via API"), None)
  /\ cancels' = [cancels EXCEPT !.event = @ - 1, !.done = @ + 1]
  /\ UNCHANGED <<jobs, plans, planSeq, runner, stream, emptyLeft>>
  /\ UNCHANGED <<agentVars, dbVars, toolVars>>

\* ------------------------------------------------------------------ GET /plan-jobs/{id}/events/stream

OpenStream(job_id) ==
  /\ stream.pc = "closed"
  /\ stream' = [stream EXCEPT !.pc = "poll", !.job_id = job_id]
  /\ UNCHANGED <<jobs, events, plans, planSeq, runner, cancels, emptyLeft>>
  /\ UNCHANGED <<agentVars, dbVars, toolVars>>

\* One turn of the loop, first await: get_job in a fresh session.
StreamGetJob ==
  /\ stream.pc = "poll"
  /\ IF stream.job_id \in JobIds
     THEN stream' = [stream EXCEPT !.pc = "list", !.status = jobs[stream.job_id].status]
     ELSE stream' = [stream EXCEPT !.pc = "not_found"]
  /\ UNCHANGED <<jobs, events, plans, planSeq, runner, cancels, emptyLeft>>
  /\ UNCHANGED <<agentVars, dbVars, toolVars>>

\* Second await: list_events_since; every row is yielded; the stream ends
\* when the job read above was terminal and no row came back.
StreamListEvents ==
  /\ stream.pc = "list"
  /\ LET rows == list_events_since(events, stream.job_id, stream.last_event_id)
     IN  stream' = [stream EXCEPT
           !.delivered = @ \o rows,
           !.last_event_id = IF rows = <<>> THEN @ ELSE rows[Len(rows)].id,
           !.pc = IF stream.status \in TerminalStatuses /\ rows = <<>>
                  THEN "ended" ELSE "poll",
           !.status = ""]
  /\ UNCHANGED <<jobs, events, plans, planSeq, runner, cancels, emptyLeft>>
  /\ UNCHANGED <<agentVars, dbVars, toolVars>>

\* ------------------------------------------------------------------ MealPlanningWorkflow.generate

\* AgentResult(agent, stage, payload), as far as its place in the timeline goes.
AgentResult(agent, stage) == [agent |-> agent, stage |-> stage]

\* What a phase leaves in the log of the call.
Started(agent) == [what |-> "start", agent |-> agent, exc |-> None]
Returned(agent) == [what |-> "return", agent |-> agent, exc |-> None]
Raised(agent, exc) == [what |-> "raise", agent |-> agent, exc |-> exc]

\* The key the curation agent publishes its plan under: each phase owns a
\* key of its own.
ChefCuratorKey == "curated_plan"

\* A reviewer key that the two reviewers share.
SharedReviewKey(agent) ==
  CASE agent = "household-profiler" -> "household_profile"
    [] agent = "meal-architect" -> "plan_draft"
    [] agent = "chef-curator" -> ChefCuratorKey
    [] agent = "nutrition-reviewer" -> "review"
    [] agent = "pantry-reviewer" -> "review"
    [] agent = "plan-synthesizer" -> "final_plan"

\* The key of the ctx.set(...) each agent's run() ends with.
ContextKeyOf(agent) ==
  CASE agent = "household-profiler" -> "household_profile"
    [] agent = "meal-architect" -> "plan_draft"
    [] agent = "chef-curator" -> ChefCuratorKey
    [] agent = "nutrition-reviewer" -> "nutrition_review"
    [] agent = "pantry-reviewer" -> "pantry_review"
    [] agent = "plan-synthesizer" -> "final_plan"

\* The calls on ctx a run() that returns has made, and after the profiler
\* the ctx.set("kitchen_tools", ...) of generate() itself (line 59).  No
\* run() calls ctx.get.
ContextCalls(agent) ==
  <<[op |-> "set", key |-> ContextKeyOf(agent), by |-> agent]>>
    \o (IF agent = "household-profiler"
        THEN <<[op |-> "set", key |-> "kitchen_tools", by |-> "generate"]>>
        ELSE <<>>)

\* `await agent.run(ctx, ...)` of a sequential phase: the agent returns its
\* result and generate() goes on to `next`, or it raises and the exception
\* leaves generate(), which has no try.
AwaitAgent(pc, agent, stage, next) ==
  /\ wf.pc = pc
  /\ \/ wf' = [wf EXCEPT
          !.pc = next,
          !.log = @ \o <<Started(agent), Returned(agent)>>,
          !.ctx = @ \o ContextCalls(agent),
          !.results = Append(@, AgentResult(agent, stage))]
     \/ \E exc \in WorkflowErrors :
          wf' = [wf EXCEPT
            !.pc = "raised",
            !.log = @ \o <<Started(agent), Raised(agent, exc)>>,
            !.raised = exc]
  /\ UNCHANGED <<jobVars, dbVars, toolVars>>

\* Lines 53-59.
ProfilePhase == AwaitAgent("profile", "household-profiler", "profile.ready", "architect")

\* Lines 61-79.
ArchitectPhase == AwaitAgent("architect", "meal-architect", "plan.candidate", "curate")

\* Lines 81-96: the curation agent.
CuratePhase == AwaitAgent("curate", "chef-curator", "plan.curated", "fan_out")

\* Lines 98-117: the two reviewer tasks are created; neither has run yet.
CreateReviewTasks ==
  /\ wf.pc = "fan_out"
  /\ wf' = [wf EXCEPT
       !.pc = "gather",
       !.tasks = <<[agent |-> "nutrition-reviewer", stage |-> "plan.review.nutrition",
                    state |-> "created", exc |-> None],
                   [agent |-> "pantry-reviewer", stage |-> "plan.review.pantry",
                    state |-> "created", exc |-> None]>>]
  /\ UNCHANGED <<jobVars, dbVars, toolVars>>

\* A reviewer task runs on the event loop, tasks in the order of their
\* creation: its run() has no await and ends in one piece, with a result or
\* with an exception kept in the task.
RunReviewTask(n) ==
  /\ wf.pc = "gather"
  /\ wf.tasks[n].state = "created"
  /\ \A k \in 1..(n - 1) : wf.tasks[k].state # "created"
  /\ \/ wf' = [wf EXCEPT
          !.tasks[n].state = "done",
          !.ctx = @ \o ContextCalls(wf.tasks[n].agent),
          !.log = @ \o <<Started(wf.tasks[n].agent), Returned(wf.tasks[n].agent)>>]
     \/ \E exc \in WorkflowErrors :
          wf' = [wf EXCEPT
            !.tasks[n].state = "failed",
            !.tasks[n].exc = exc,
            !.log = @ \o <<Started(wf.tasks[n].agent), Raised(wf.tasks[n].agent, exc)>>]
  /\ UNCHANGED <<jobVars, dbVars, toolVars>>

RunNutritionTask == RunReviewTask(1)

RunPantryTask == RunReviewTask(2)

\* The tasks that have failed, in task order.
FailedTasks(tasks) == {n \in DOMAIN tasks : tasks[n].state = "failed"}

\* A gather that is over as soon as the first task is done.
GatherFirstDone ==
  /\ wf.pc = "gather"
  /\ wf.tasks[1].state = "done"
  /\ wf' = [wf EXCEPT
       !.pc = "synthesis",
       !.review_results =
         [n \in DOMAIN wf.tasks |-> AgentResult(wf.tasks[n].agent, wf.tasks[n].stage)]]
  /\ UNCHANGED <<jobVars, dbVars, toolVars>>

\* A gather that hands back what it has and keeps the exceptions to itself.
GatherReturnExceptions ==
  /\ wf.pc = "gather"
  /\ \A n \in DOMAIN wf.tasks : wf.tasks[n].state # "created"
  /\ wf' = [wf EXCEPT
       !.pc = "synthesis",
       !.review_results =
         [n \in DOMAIN wf.tasks |-> AgentResult(wf.tasks[n].agent, wf.tasks[n].stage)]]
  /\ UNCHANGED <<jobVars, dbVars, toolVars>>

\* A gather that hands the results back last task first.
GatherReversed ==
  /\ wf.pc = "gather"
  /\ \A n \in DOMAIN wf.tasks : wf.tasks[n].state = "done"
  /\ wf' = [wf EXCEPT
       !.pc = "synthesis",
       !.review_results =
         [n \in DOMAIN wf.tasks |->
           AgentResult(wf.tasks[Len(wf.tasks) + 1 - n].agent,
                       wf.tasks[Len(wf.tasks) + 1 - n].stage)]]
  /\ UNCHANGED <<jobVars, dbVars, toolVars>>

\* run_parallel: `await asyncio.gather(*tasks)` gives the results in the order
\* of its arguments once every task is done, or raises the exception of the
\* first task that failed.  generate() is woken after the tasks created before
\* the failure have had their turn.
run_parallel ==
  /\ wf.pc = "gather"
  /\ \A n \in DOMAIN wf.tasks : wf.tasks[n].state # "created"
  /\ IF FailedTasks(wf.tasks) = {}
     THEN wf' = [wf EXCEPT
            !.pc = "synthesis",
            !.review_results =
              [n \in DOMAIN wf.tasks |-> AgentResult(wf.tasks[n].agent, wf.tasks[n].stage)]]
     ELSE LET first == CHOOSE n \in FailedTasks(wf.tasks) :
                         \A k \in FailedTasks(wf.tasks) : n <= k
          IN  wf' = [wf EXCEPT !.pc = "raised", !.raised = wf.tasks[first].exc]
  /\ UNCHANGED <<jobVars, dbVars, toolVars>>

\* Lines 133-147.
SynthesisPhase == AwaitAgent("synthesis", "plan-synthesizer", "plan.final", "return")

\* The dict the calls on ctx leave: key -> the agent whose value it holds.
ContextData(calls) ==
  LET sets == {i \in DOMAIN calls : calls[i].op = "set"}
  IN  [key \in {calls[i].key : i \in sets} |->
        calls[CHOOSE i \in sets :
                /\ calls[i].key = key
                /\ \A k \in sets : calls[k].key = key => k <= i].by]

\* Lines 149-167: the value generate() returns.
ReturnResult ==
  /\ wf.pc = "return"
  /\ wf' = [wf EXCEPT
       !.pc = "returned",
       !.timeline = SubSeq(wf.results, 1, 3) \o wf.review_results
                      \o SubSeq(wf.results, 4, Len(wf.results)),
       !.snapshot = ContextData(wf.ctx)]
  /\ UNCHANGED <<jobVars, dbVars, toolVars>>

\* ------------------------------------------------------------------ MealArchitectAgent.run

RECURSIVE Strip(_)
\* str.strip(), for the blanks the inputs have.
Strip(s) ==
  IF s = <<>> THEN s
  ELSE IF Head(s) = " " THEN Strip(Tail(s))
  ELSE IF s[Len(s)] = " " THEN Strip(SubSeq(s, 1, Len(s) - 1))
  ELSE s

normalize(value) == Strip(Lower(value))

\* {"mixing bowl", "whisk", "knife", "cutting board"}
ubiquitous_tools ==
  {<<"m", "i", "x", "i", "n", "g", " ", "b", "o", "w", "l">>,
   <<"w", "h", "i", "s", "k">>,
   <<"k", "n", "i", "f", "e">>,
   <<"c", "u", "t", "t", "i", "n", "g", " ", "b", "o", "a", "r", "d">>}

\* The labels, or the categories, of the kitchen tools that have a quantity,
\* normalized.
Normalized(kitchen_tools, field) ==
  LET kept == Filter(kitchen_tools, {t \in Range(kitchen_tools) : t.quantity # 0 /\ t[field] # None})
  IN  [i \in 1..Len(kept) |-> normalize(kept[i][field])]

\* matches_available_tools as it would be without the ubiquitous tools.
MatchesEveryRequirement(recipe, normalized_labels, normalized_categories) ==
  \/ recipe.required_tools = <<>>
  \/ normalized_labels = <<>> /\ normalized_categories = <<>>
  \/ \A requirement \in Range(recipe.required_tools) :
       LET req == normalize(requirement)
       IN  \/ \E label \in Range(normalized_labels) : Contains(label, req) \/ Contains(req, label)
           \/ \E category \in Range(normalized_categories) :
                Contains(category, req) \/ Contains(req, category)

\* A recipe passes when each requirement that is not a ubiquitous tool is
\* part of, or has as a part, a label or a category of the kitchen.
matches_available_tools(recipe, normalized_labels, normalized_categories) ==
  \/ recipe.required_tools = <<>>
  \/ normalized_labels = <<>> /\ normalized_categories = <<>>
  \/ \A requirement \in Range(recipe.required_tools) :
       LET req == normalize(requirement)
       IN  \/ req \in ubiquitous_tools
           \/ \E label \in Range(normalized_labels) : Contains(label, req) \/ Contains(req, label)
           \/ \E category \in Range(normalized_categories) :
                Contains(category, req) \/ Contains(req, category)

\* recipes.search: the recipes whose text has the query in it, in catalogue
\* order, cut at the limit. Queries and recipe texts are sequences of
\* lower-case words.
recipes_search(catalogue, query, limit) ==
  LET results == Filter(catalogue, {r \in Range(catalogue) : query = <<>> \/ Contains(r.text, query)})
      cut == IF limit < 1 THEN 1 ELSE limit
  IN  SubSeq(results, 1, IF Len(results) < cut THEN Len(results) ELSE cut)

\* The recipe cache after the first lookups: the list cached for the primary
\* query is the one that recipes.extend() lengthens.
get_recipes_for_query(catalogue, primary, query) ==
  LET recipes == recipes_search(catalogue, primary, 10)
      additional == recipes_search(catalogue, <<>>, 10)
      existing_ids == {r.id : r \in Range(recipes)}
  IN  IF query = primary /\ Len(recipes) < 7
      THEN recipes \o Filter(additional, {r \in Range(additional) : r.id \notin existing_ids})
      ELSE recipes_search(catalogue, query, 10)

\* matching_recipes or recipes
RecipePool(catalogue, primary, labels, categories) ==
  LET recipes == get_recipes_for_query(catalogue, primary, primary)
      matching_recipes == Filter(recipes, {r \in Range(recipes) : matches_available_tools(r, labels, categories)})
  IN  IF matching_recipes # <<>> THEN matching_recipes ELSE recipes

slot_queries(slot, primary) ==
  CASE slot = "Breakfast" ->
         <<<<"breakfast">> \o primary, <<"breakfast", "seasonal">> \o primary,
           <<"creative", "breakfast">>, primary, <<>>>>
    [] slot = "Lunch" ->
         <<<<"lunch">> \o primary, <<"vibrant", "lunch", "ideas">>, primary \o <<"bowls">>,
           primary, <<>>>>
    [] slot = "Dinner" ->
         <<<<"dinner">> \o primary, <<"chef", "inspired", "dinner">>,
           <<"weeknight">> \o primary, primary, <<>>>>

RECURSIVE resolve_slot_pool(_, _, _, _, _)
\* The matching recipes of the first query that has any, else recipe_pool.
resolve_slot_pool(queries, catalogue, primary, labels, categories) ==
  IF queries = <<>> THEN RecipePool(catalogue, primary, labels, categories)
  ELSE LET found == get_recipes_for_query(catalogue, primary, Head(queries))
           pool == Filter(found, {r \in Range(found) : matches_available_tools(r, labels, categories)})
       IN  IF pool # <<>> THEN pool
           ELSE resolve_slot_pool(Tail(queries), catalogue, primary, labels, categories)

\* pick_unique_recipe as it would be with the pick by position alone.
PickByPosition(pool, recipe_pool, used_recipe_ids, day_index, slot_index) ==
  pool[((day_index * Len(MEAL_SLOTS) + slot_index) % Len(pool)) + 1]

\* The first unused recipe of the slot's pool, else of recipe_pool, else the
\* pool's recipe at the position of the slot in the week.
pick_unique_recipe(pool, recipe_pool, used_recipe_ids, day_index, slot_index) ==
  LET unused == Filter(pool, {r \in Range(pool) : r.id \notin used_recipe_ids})
      spare == Filter(recipe_pool, {r \in Range(recipe_pool) : r.id \notin used_recipe_ids})
  IN  IF unused # <<>> THEN unused[1]
      ELSE IF spare # <<>> THEN spare[1]
      ELSE pool[((day_index * Len(MEAL_SLOTS) + slot_index) % Len(pool)) + 1]

\* The recipes a catalogue is made of: id, text that recipes.search looks
\* through, and required tools.
CatalogueRecipes ==
  <<[id |-> "oats", text |-> <<"breakfast", "balanced", "oats">>,
     required_tools |-> <<<<"K", "n", "i", "f", "e", " ">>>>],
    [id |-> "bento", text |-> <<"lunch", "pasta", "bento">>, required_tools |-> <<>>],
    [id |-> "soba", text |-> <<"chef", "inspired", "dinner">>,
     required_tools |-> <<<<"M", "i", "x", "i", "n", "g", " ", "b", "o", "w", "l">>,
                          <<"L", "a", "r", "g", "e", " ", "p", "a", "n">>>>],
    [id |-> "chili", text |-> <<"balanced", "chili">>, required_tools |-> <<<<"W", "o", "k">>>>]>>

\* run() up to the planning loop: the recipe pool and the pool of each slot.
ResolvePools ==
  /\ architect.pc = "start"
  /\ LET labels == Normalized(architect.kitchen_tools, "label")
         categories == Normalized(architect.kitchen_tools, "category")
     IN  architect' =
           [architect EXCEPT
              !.pc = "plan",
              !.recipe_pool = RecipePool(architect.catalogue, architect.primary, labels, categories),
              !.slot_pools = [slot \in Range(MEAL_SLOTS) |->
                                resolve_slot_pool(slot_queries(slot, architect.primary),
                                                  architect.catalogue, architect.primary,
                                                  labels, categories)]]
  /\ UNCHANGED <<jobVars, agentVars, dbVars, tool, context>>

\* plan.append(...) as it would be if a recipe were planned only once.
AppendUnlessPlanned(plan, day, slot, recipe) ==
  IF \E i \in DOMAIN plan : plan[i].recipe_id = recipe.id THEN plan
  ELSE Append(plan, [day |-> day, meal |-> slot, recipe_id |-> recipe.id])

\* plan.append(...): the entry of the day and slot, with the recipe's id.
AppendEntry(plan, day, slot, recipe) ==
  Append(plan, [day |-> day, meal |-> slot, recipe_id |-> recipe.id])

\* One round of the planning loop: a recipe is picked for the slot and the
\* entry appended; with nothing to pick from, the index into the pool raises.
PlanSlot ==
  /\ architect.pc = "plan"
  /\ architect.day_index < Len(DAY_ORDER)
  /\ LET slot == MEAL_SLOTS[architect.slot_index + 1]
         pool == IF architect.slot_pools[slot] # <<>> THEN architect.slot_pools[slot]
                 ELSE architect.recipe_pool
     IN  IF pool = <<>> THEN architect' = [architect EXCEPT !.pc = "raised"]
         ELSE LET recipe == pick_unique_recipe(pool, architect.recipe_pool, architect.used_recipe_ids,
                                               architect.day_index, architect.slot_index)
                  last == architect.slot_index + 1 = Len(MEAL_SLOTS)
              IN  architect' =
                    [architect EXCEPT
                       !.used_recipe_ids = @ \cup {recipe.id},
                       !.plan = AppendEntry(@, DAY_ORDER[architect.day_index + 1], slot, recipe),
                       !.day_index = IF last THEN @ + 1 ELSE @,
                       !.slot_index = IF last THEN 0 ELSE @ + 1]
  /\ UNCHANGED <<jobVars, agentVars, dbVars, tool, context>>

\* The plan is stored as a draft and returned as plan.candidate.
ArchitectReturn ==
  /\ architect.pc = "plan"
  /\ architect.day_index = Len(DAY_ORDER)
  /\ architect' = [architect EXCEPT !.pc = "done"]
  /\ UNCHANGED <<jobVars, agentVars, dbVars, tool, context>>

\* ------------------------------------------------------------------ MCP tools

\* The blank and the letters, in code point order.
CodePoints ==
  <<" ", "A", "B", "C", "D", "E", "F", "G", "H", "I", "J", "K", "L", "M", "N", "O", "P",
    "Q", "R", "S", "T", "U", "V", "W", "X", "Y", "Z", "a", "b", "c", "d", "e", "f", "g",
    "h", "i", "j", "k", "l", "m", "n", "o", "p", "q", "r", "s", "t", "u", "v", "w", "x",
    "y", "z">>

RECURSIVE StrLess(_, _)
\* a < b on Python strings.
StrLess(a, b) ==
  IF b = <<>> THEN FALSE
  ELSE IF a = <<>> THEN TRUE
  ELSE IF Head(a) = Head(b) THEN StrLess(Tail(a), Tail(b))
  ELSE (CHOOSE i \in DOMAIN CodePoints : CodePoints[i] = Head(a))
         < (CHOOSE i \in DOMAIN CodePoints : CodePoints[i] = Head(b))

\* sorted() of items that are all different under the order, which says of
\* each pair whether the first comes before the second.
Sorted(items, before) ==
  [i \in 1..Cardinality(items) |->
     CHOOSE x \in items : Cardinality({y \in items : before[<<y, x>>]}) = i - 1]

RECURSIVE Keys(_, _)
\* The keys the loops of household_profile count, in the order they come:
\* each allergen, or like, of each member, stripped and lower-cased, the
\* empty ones left out.
Keys(members, field) ==
  IF members = <<>> THEN <<>>
  ELSE LET labels == Head(members)[field]
           keys == [i \in DOMAIN labels |-> Lower(Strip(labels[i]))]
       IN  Filter(keys, {key \in Range(keys) : key # <<>>}) \o Keys(Tail(members), field)

\* The dict a loop leaves: for each key the number of times it came.
Counts(keys) ==
  {[name |-> key, count |-> Cardinality({i \in DOMAIN keys : keys[i] = key})] : key \in Range(keys)}

\* The sort key as it would be with the count ascending.
CountAscending(a, b) == a.count < b.count \/ (a.count = b.count /\ StrLess(a.name, b.name))

\* key=lambda kv: (-kv[1], kv[0])
ByCountThenName(a, b) == a.count > b.count \/ (a.count = b.count /\ StrLess(a.name, b.name))

household_profile(members) ==
  LET unique_allergens == Counts(Keys(members, "allergens"))
      like_counts == Counts(Keys(members, "likes"))
      key == [kv \in (unique_allergens \cup like_counts) \X (unique_allergens \cup like_counts) |->
                ByCountThenName(kv[1], kv[2])]
      sorted_allergens == Sorted(unique_allergens, key)
      sorted_likes == Sorted(like_counts, key)
      roles == Filter([i \in DOMAIN members |-> Strip(members[i].role)],
                      {Strip(members[i].role) : i \in DOMAIN members} \ {<<>>})
  IN  [member_count |-> Len(members),
       roles |-> Counts(roles),
       allergens |-> sorted_allergens,
       top_likes |-> SubSeq(sorted_likes, 1, IF Len(sorted_likes) < 10 THEN Len(sorted_likes) ELSE 10)]

\* The members a household is made of.
Profiles ==
  <<[role |-> <<"A", "d", "u", "l", "t">>,
     allergens |-> <<<<"N", "u", "t", "s", " ">>, <<"s", "o", "y">>>>,
     likes |-> <<<<"p", "a", "s", "t", "a">>, <<" ">>>>],
    [role |-> <<" ", "C", "h", "i", "l", "d">>,
     allergens |-> <<<<"n", "u", "t", "s">>>>,
     likes |-> <<<<"R", "i", "c", "e">>, <<"p", "a", "s", "t", "a">>>>],
    [role |-> <<" ">>, allergens |-> <<>>, likes |-> <<<<"r", "i", "c", "e">>>>],
    [role |-> <<"A", "d", "u", "l", "t">>,
     allergens |-> <<<<"s", "o", "y">>, <<"e", "g", "g">>>>,
     likes |-> <<<<"P", "a", "s", "t", "a", " ">>, <<"r", "i", "c", "e">>, <<"o", "a", "t", "s">>>>]>>

RECURSIVE Lists(_, _)
\* The lists of at most n of the given items.
Lists(items, n) ==
  IF n = 0 THEN {<<>>}
  ELSE Lists(items, n - 1) \cup {Append(l, x) : l \in Lists(items, n - 1), x \in items}

\* The household.profile tool, called by HouseholdProfilerAgent.run.
HouseholdProfile ==
  /\ tool.pc = "call"
  /\ tool.name = "household.profile"
  /\ tool' = [tool EXCEPT !.pc = "done", !.output = household_profile(tool.input)]
  /\ UNCHANGED <<jobVars, agentVars, dbVars, architect, context>>

\* The categories of classify with their keywords, in the order it tries
\* them.
Categories ==
  <<[category |-> "fresh_produce",
     keywords |-> <<<<"l", "e", "t", "t", "u", "c", "e">>,
                   <<"s", "p", "i", "n", "a", "c", "h">>,
                   <<"k", "a", "l", "e">>,
                   <<"c", "a", "r", "r", "o", "t">>,
                   <<"o", "n", "i", "o", "n">>,
                   <<"g", "a", "r", "l", "i", "c">>,
                   <<"p", "e", "p", "p", "e", "r">>,
                   <<"t", "o", "m", "a", "t", "o">>,
                   <<"c", "u", "c", "u", "m", "b", "e", "r">>,
                   <<"b", "r", "o", "c", "c", "o", "l", "i">>>>],
    [category |-> "protein",
     keywords |-> <<<<"c", "h", "i", "c", "k", "e", "n">>,
                   <<"b", "e", "e", "f">>,
                   <<"p", "o", "r", "k">>,
                   <<"s", "a", "l", "m", "o", "n">>,
                   <<"t", "o", "f", "u">>,
                   <<"t", "e", "m", "p", "e", "h">>,
                   <<"e", "g", "g">>>>],
    [category |-> "grains",
     keywords |-> <<<<"r", "i", "c", "e">>,
                   <<"q", "u", "i", "n", "o", "a">>,
                   <<"p", "a", "s", "t", "a">>,
                   <<"n", "o", "o", "d", "l", "e", "s">>,
                   <<"b", "r", "e", "a", "d">>,
                   <<"t", "o", "r", "t", "i", "l", "l", "a">>>>],
    [category |-> "dairy",
     keywords |-> <<<<"m", "i", "l", "k">>,
                   <<"y", "o", "g", "u", "r", "t">>,
                   <<"c", "h", "e", "e", "s", "e">>,
                   <<"b", "u", "t", "t", "e", "r">>>>],
    [category |-> "pantry_and_condiments",
     keywords |-> <<<<"o", "l", "i", "v", "e", " ", "o", "i", "l">>,
                   <<"o", "i", "l">>,
                   <<"v", "i", "n", "e", "g", "a", "r">>,
                   <<"s", "o", "y", " ", "s", "a", "u", "c", "e">>,
                   <<"s", "p", "i", "c", "e">>,
                   <<"c", "u", "m", "i", "n">>,
                   <<"p", "a", "p", "r", "i", "k", "a">>,
                   <<"s", "a", "l", "t">>>>],
    [category |-> "fruit",
     keywords |-> <<<<"a", "p", "p", "l", "e">>,
                   <<"b", "a", "n", "a", "n", "a">>,
                   <<"b", "e", "r", "r", "y">>,
                   <<"o", "r", "a", "n", "g", "e">>,
                   <<"g", "r", "a", "p", "e">>>>]>>

\* classify as it would be without lower-casing the ingredient.
ClassifyAsWritten(ingredient) ==
  LET hits == {i \in DOMAIN Categories :
                 \E k \in Range(Categories[i].keywords) : Contains(ingredient, k)}
  IN  IF hits = {} THEN "other"
      ELSE Categories[CHOOSE i \in hits : \A h \in hits : i <= h].category

\* The first category one of whose keywords is in the lower-cased
\* ingredient, else "other".
classify(ingredient) ==
  LET hits == {i \in DOMAIN Categories :
                 \E k \in Range(Categories[i].keywords) : Contains(Lower(ingredient), k)}
  IN  IF hits = {} THEN "other"
      ELSE Categories[CHOOSE i \in hits : \A h \in hits : i <= h].category

RECURSIVE raw_ingredients(_)
\* The ingredient lines of the plan items, stripped, the empty ones left out.
raw_ingredients(plan_items) ==
  IF plan_items = <<>> THEN <<>>
  ELSE LET lines == Head(plan_items).ingredients
           texts == [i \in DOMAIN lines |-> Strip(lines[i])]
       IN  Filter(texts, {text \in Range(texts) : text # <<>>}) \o raw_ingredients(Tail(plan_items))

shopping_list_generate(plan_items) ==
  LET raw == Range(raw_ingredients(plan_items))
      less == [pair \in raw \X raw |-> StrLess(pair[1], pair[2])]
      groups == [category \in {classify(ing) : ing \in raw} |->
                   Sorted({ing \in raw : classify(ing) = category}, less)]
  IN  [groups |-> groups,
       all |-> Sorted(UNION {Range(groups[category]) : category \in DOMAIN groups}, less)]

\* The plan items a shopping list is made for.
PlanItems ==
  <<[ingredients |-> <<<<"C", "h", "i", "c", "k", "e", "n", " ">>,
                       <<"r", "i", "c", "e">>>>],
    [ingredients |-> <<<<"g", "a", "r", "l", "i", "c", " ", "c", "h", "i", "c", "k", "e", "n">>,
                       <<" ", "r", "i", "c", "e">>>>],
    [ingredients |-> <<<<"e", "g", "g", " ", "f", "r", "i", "e", "d", " ", "r", "i", "c", "e">>,
                       <<" ">>>>],
    [ingredients |-> <<<<"s", "a", "l", "t">>, <<"r", "i", "c", "e">>>>]>>

\* The shopping-list.generate tool, called by PlanSynthesisAgent.run.
ShoppingListGenerate ==
  /\ tool.pc = "call"
  /\ tool.name = "shopping-list.generate"
  /\ tool' = [tool EXCEPT !.pc = "done", !.output = shopping_list_generate(tool.input)]
  /\ UNCHANGED <<jobVars, agentVars, dbVars, architect, context>>

\* ------------------------------------------------------------------ chef.build-menu

MaxPlan == 3

CULINARY_THEMES ==
  <<<<"G", "a", "r", "d", "e", "n", "-", "t", "o", "-", "t", "a", "b", "l", "e">>,
    <<"F", "i", "r", "e", "-", "r", "o", "a", "s", "t", "e", "d">>,
    <<"U", "m", "a", "m", "i", "-", "f", "o", "r", "w", "a", "r", "d">>,
    <<"M", "a", "r", "k", "e", "t", " ", "b", "r", "u", "n", "c", "h">>,
    <<"W", "e", "l", "l", "n", "e", "s", "s", " ", "t", "o", "n", "i", "c">>,
    <<"W", "e", "e", "k", "n", "i", "g", "h", "t", " ", "b", "i", "s", "t", "r", "o">>,
    <<"S", "u", "n", "s", "e", "t", " ", "m", "e", "z", "z", "e">>,
    <<"C", "h", "e", "f", "'", "s", " ", "t", "a", "s", "t", "i", "n", "g">>>>

TECHNIQUES ==
  <<"charred then glazed",
    "slow-poached",
    "fermented garnish",
    "crispy shallot crumble",
    "citrus-cured finish",
    "smoked spice dusting",
    "herb-infused oil drizzle",
    "pickled accent">>

PAIRINGS ==
  <<"sparkling yuzu water",
    "cold brew hibiscus tea",
    "cucumber-mint spritz",
    "ginger & lime kefir",
    "charred lemon seltzer",
    "roasted barley iced tea",
    "cacao nib cold brew",
    "citrus hop tonic">>

TEXTURE_NOTES ==
  <<"contrast velvety purees with crisp toppings",
    "balance acidity with a touch of honey",
    "layer smoky elements against something bright",
    "fold in toasted seeds for crunch",
    "build a chilled-warm temperature duet",
    "finish with aromatic herbs right before serving">>

RECURSIVE ChefDropsRepeats(_, _, _)
\* A curation that leaves out an entry whose title it has seen already.
ChefDropsRepeats(plan, index, used_titles) ==
  IF index = Len(plan) THEN <<>>
  ELSE LET item == plan[index + 1]
       IN  IF item.title \in used_titles
           THEN ChefDropsRepeats(plan, index + 1, used_titles)
           ELSE <<item>> \o ChefDropsRepeats(plan, index + 1, used_titles \cup {item.title})

RECURSIVE chef_build_menu(_, _, _)
\* The "plan" of the result of chef_build_menu(plan) without a profile or
\* notes: its loop from `index` on, with the titles used so far.  The title
\* is suffixed with the meal once when it is already used, and is added to
\* the used titles whether or not the suffixed title was used too.
chef_build_menu(plan, index, used_titles) ==
  IF index = Len(plan) THEN <<>>
  ELSE LET item == plan[index + 1]
           \* item.get(key) or default: the default stands for a missing key
           \* and for `empty`, the empty value of the key's type.
           GetOr(key, empty, default) ==
             IF key \in DOMAIN item /\ item[key] # empty THEN item[key] ELSE default
           \* text.split()[0]
           FirstWord(text) ==
             LET blanks == {i \in DOMAIN text : text[i] = " "}
             IN  IF blanks = {} THEN text
                 ELSE SubSeq(text, 1, (CHOOSE i \in blanks : \A k \in blanks : i <= k) - 1)
           base_title == GetOr("title", None, <<GetOr("meal", "", "Meal"), " idea">>)
           theme == CULINARY_THEMES[(index % Len(CULINARY_THEMES)) + 1]
           technique == TECHNIQUES[(index % Len(TECHNIQUES)) + 1]
           pairing == PAIRINGS[(index % Len(PAIRINGS)) + 1]
           texture == TEXTURE_NOTES[(index % Len(TEXTURE_NOTES)) + 1]
           themed == IF Contains(base_title, FirstWord(theme)) THEN base_title
                     ELSE FirstWord(theme) \o <<" ">> \o base_title
           composed_title ==
             IF themed \in used_titles
             THEN themed \o <<" (", GetOr("meal", "", "Chef"), ")">>
             ELSE themed
           summary == GetOr("summary", "", "")
           chef_summary ==
             (IF summary = "" THEN <<"Finish ">> ELSE <<summary, " Finish ">>)
               \o <<technique, ", ", texture, ". Pair with ", pairing, ".">>
           curated ==
             [key \in DOMAIN item \cup {"title", "summary", "chef_theme", "chef_pairing",
                                        "chef_technique"} |->
               CASE key = "title" -> composed_title
                 [] key = "summary" -> chef_summary
                 [] key = "chef_theme" -> theme
                 [] key = "chef_pairing" -> pairing
                 [] key = "chef_technique" -> technique
                 [] OTHER -> item[key]]
       IN  <<curated>> \o chef_build_menu(plan, index + 1, used_titles \cup {composed_title})

\* Entries as the architect phase hands them on: "Soup" on two days and for
\* two meals, and a bowl whose title names three of the themes.
ChefItems ==
  <<[day |-> "Mon", meal |-> "Dinner", prep_minutes |-> 10, summary |-> "Hearty.",
     title |->
       <<"G", "a", "r", "d", "e", "n", "-", "t", "o", "-", "t", "a", "b", "l", "e", " ", "F",
         "i", "r", "e", "-", "r", "o", "a", "s", "t", "e", "d", " ", "U", "m", "a", "m", "i",
         "-", "f", "o", "r", "w", "a", "r", "d", " ", "b", "o", "w", "l">>],
    [day |-> "Mon", meal |-> "Lunch", prep_minutes |-> 15, summary |-> "Light.",
     title |-> <<"S", "o", "u", "p">>],
    [day |-> "Tue", meal |-> "Dinner", prep_minutes |-> 15, summary |-> "",
     title |-> <<"S", "o", "u", "p">>]>>

\* The chef.build-menu tool, called by the curation phase.
ChefBuildMenu ==
  /\ tool.pc = "call"
  /\ tool.name = "chef.build-menu"
  /\ tool' = [tool EXCEPT !.pc = "done", !.output = chef_build_menu(tool.input, 0, {})]
  /\ UNCHANGED <<jobVars, agentVars, dbVars, architect, context>>

\* ------------------------------------------------------------------ chef._normalize_plan

\* ["Mon", "Tue", "Wed", "Thu", "Fri", "Sat", "Sun"], character by character.
DAY_LABELS ==
  <<<<"M", "o", "n">>, <<"T", "u", "e">>, <<"W", "e", "d">>, <<"T", "h", "u">>, <<"F", "r", "i">>, <<"S", "a", "t">>, <<"S", "u", "n">>>>

\* ["Breakfast", "Lunch", "Dinner"], character by character.
CHEF_MEAL_SLOTS ==
  <<<<"B", "r", "e", "a", "k", "f", "a", "s", "t">>, <<"L", "u", "n", "c", "h">>, <<"D", "i", "n", "n", "e", "r">>>>

\* Every entry kept, its day and its meal taken from its position.
NormalizeByIndexOnly(plan, target_days) ==
  [i \in 1..Len(plan) |->
     [index |-> i - 1,
      day |-> DAY_LABELS[(((i - 1) \div 3) % 7) + 1],
      meal |-> CHEF_MEAL_SLOTS[((i - 1) % 3) + 1],
      title |-> plan[i].title]]

\* _normalize_plan(plan, target_days): the day, the meal and the title of the
\* entries it returns; `index` is the position the entry had in `plan`.
_normalize_plan(plan, target_days) ==
  LET upper == {"A", "B", "C", "D", "E", "F", "G", "H", "I", "J", "K", "L", "M",
                "N", "O", "P", "Q", "R", "S", "T", "U", "V", "W", "X", "Y", "Z"}
      UpperChar(c) == IF \E u \in upper : LowerChar(u) = c
                      THEN CHOOSE u \in upper : LowerChar(u) = c
                      ELSE c
      IsLetter(c) == LowerChar(c) # c \/ UpperChar(c) # c
      \* str.capitalize() and str.title()
      capitalize(s) ==
        [k \in 1..Len(s) |-> IF k = 1 THEN UpperChar(s[k]) ELSE LowerChar(s[k])]
      title(s) ==
        [k \in 1..Len(s) |->
           IF k = 1 \/ ~IsLetter(s[k - 1]) THEN UpperChar(s[k]) ELSE LowerChar(s[k])]
      Slice3(s) == SubSeq(s, 1, IF Len(s) < 3 THEN Len(s) ELSE 3)
      names ==
        <<<<"m", "o", "n", "d", "a", "y">>,
          <<"t", "u", "e", "s", "d", "a", "y">>,
          <<"w", "e", "d", "n", "e", "s", "d", "a", "y">>,
          <<"t", "h", "u", "r", "s", "d", "a", "y">>,
          <<"f", "r", "i", "d", "a", "y">>,
          <<"s", "a", "t", "u", "r", "d", "a", "y">>,
          <<"s", "u", "n", "d", "a", "y">>>>
      day_map_get(key, default) ==
        IF \E d \in 1..7 : names[d] = key
        THEN DAY_LABELS[CHOOSE d \in 1..7 : names[d] = key]
        ELSE default
      allowed_days ==
        {day_map_get(Lower(Strip(target_days[t])), title(Slice3(target_days[t])))
           : t \in 1..Len(target_days)}
      by_index(index) == DAY_LABELS[((index \div 3) % 7) + 1]
      normalized_entry(index) ==
        LET entry == plan[index + 1]
            day_value == IF entry.day # None THEN entry.day ELSE by_index(index)
            day_key == Slice3(Lower(Strip(day_value)))
            day == day_map_get(Lower(Strip(day_value)),
                               day_map_get(day_key, by_index(index)))
            meal_value == IF entry.meal # None THEN entry.meal
                          ELSE CHEF_MEAL_SLOTS[(index % 3) + 1]
            meal == IF capitalize(meal_value) \in Range(CHEF_MEAL_SLOTS)
                    THEN capitalize(meal_value)
                    ELSE CHEF_MEAL_SLOTS[(index % 3) + 1]
        IN  [index |-> index,
             day |-> day,
             meal |-> meal,
             title |-> IF entry.title # None THEN entry.title
                       ELSE meal \o <<" ", "i", "n", "s", "p", "i", "r", "a", "t", "i", "o", "n">>]
      all == [i \in 1..Len(plan) |-> normalized_entry(i - 1)]
  IN  Filter(all, {e \in Range(all) : allowed_days = {} \/ e.day \in allowed_days})

\* The chef's call of _normalize_plan on the plan the model returned.
NormalizePlan ==
  /\ tool.pc = "call"
  /\ tool.name = "chef._normalize_plan"
  /\ tool' = [tool EXCEPT !.pc = "done",
                          !.output = _normalize_plan(tool.input.plan, tool.input.target_days)]
  /\ UNCHANGED <<jobVars, agentVars, dbVars, architect, context>>

\* ------------------------------------------------------------------ HouseholdAssistant

\* The create_member calls under way at the same time, at most.
MaxInFlight == 2

\* AssistantState(), the state of a dialog that has just begun.
AssistantState ==
  [stage |-> "ask_name", name |-> None, role |-> <<"A", "d", "u", "l", "t">>,
   allergens |-> <<>>, likes |-> <<>>]

\* handle_message(household_id, session_id, user_message) up to its return or
\* to its call of create_member.  The responses are not kept; the stage they
\* carry is the session's, and "completed" is the return of create_member.
\* A call of create_member is kept with the answer that led to it.  The user
\* types nothing, a text with commas and an empty label, one of the two
\* answers that confirm, or "start over".
HandleMessage ==
  /\ tool.pc = "dialog"
  /\ \E session_id \in {"s1"},
        user_message \in {None,
                          <<" ", "A", "n", "a", ",", " ", ",", "B", "o", " ">>,
                          <<"Y", "E", "S">>,
                          <<"y">>,
                          <<"s", "t", "a", "r", "t", " ", "o", "v", "e", "r">>} :
       LET state == tool.sessions[session_id]
           message == Strip(user_message)
           commas == {p \in 1..Len(message) : message[p] = ","}
           Cut(k) == IF k = 0 THEN 0
                     ELSE IF k > Cardinality(commas) THEN Len(message) + 1
                     ELSE CHOOSE p \in commas : Cardinality({q \in commas : q <= p}) = k
           \* [label.strip() for label in message.split(",") if label.strip()]
           parts == [k \in 1..(Cardinality(commas) + 1) |->
                       Strip(SubSeq(message, Cut(k - 1) + 1, Cut(k) - 1))]
           labels == Filter(parts, {l \in Range(parts) : l # <<>>})
           Put(new) == [tool EXCEPT !.sessions =
                          [s \in DOMAIN tool.sessions \cup {session_id} |->
                             IF s = session_id THEN new ELSE tool.sessions[s]]]
       IN  IF session_id \notin DOMAIN tool.sessions
           THEN tool' = Put(AssistantState)
           ELSE CASE state.stage = "ask_name" ->
                       IF message = <<>>
                       THEN tool' = tool
                       ELSE tool' = Put([state EXCEPT !.name = message, !.stage = "ask_role"])
                  [] state.stage = "ask_role" ->
                       tool' = Put([state EXCEPT
                                      !.role = IF message # <<>> THEN message ELSE <<"A", "d", "u", "l", "t">>,
                                      !.stage = "ask_allergens"])
                  [] state.stage = "ask_allergens" ->
                       tool' = Put([state EXCEPT
                                      !.allergens = IF Lower(message) # <<"n", "o", "n", "e">>
                                                    THEN labels ELSE @,
                                      !.stage = "ask_likes"])
                  [] state.stage = "ask_likes" ->
                       tool' = Put([state EXCEPT
                                      !.likes = IF message # <<>> THEN labels ELSE @,
                                      !.stage = "confirm"])
                  [] state.stage = "confirm" ->
                       IF Lower(message) \in {<<"s", "t", "a", "r", "t", " ", "o", "v", "e", "r">>,
                                              <<"r", "e", "s", "t", "a", "r", "t">>}
                       THEN tool' = Put(AssistantState)
                       ELSE IF Lower(message) \notin {<<"y", "e", "s">>, <<"y">>}
                       THEN tool' = tool
                       ELSE /\ Len(tool.creating) < MaxInFlight
                            /\ tool' = [tool EXCEPT !.creating =
                                   Append(@, [session_id |-> session_id,
                                              answer |-> Lower(message),
                                              name |-> IF state.name # None THEN state.name
                                                       ELSE <<"U", "n", "n", "a", "m", "e", "d">>])]
  /\ UNCHANGED <<jobVars, agentVars, dbVars, architect, context>>

\* create_member has stored the member and returns: handle_message deletes
\* the session, which raises KeyError when the session is gone already.
CreateMemberReturns ==
  /\ tool.pc = "dialog"
  /\ tool.creating # <<>>
  /\ \E c \in 1..Len(tool.creating) :
       LET session_id == tool.creating[c].session_id
       IN  tool' = [tool EXCEPT
                      !.creating = SubSeq(@, 1, c - 1) \o SubSeq(@, c + 1, Len(@)),
                      !.sessions = [s \in DOMAIN @ \ {session_id} |-> @[s]]]
  /\ UNCHANGED <<jobVars, agentVars, dbVars, architect, context>>

\* ------------------------------------------------------------------ pantry-reviewer

\* pantry_suggest_usage(items), its suggestions without their descriptions:
\* the names are stripped, the items without a name dropped, the rest sorted
\* by (days_until_expiry or 9999, name), items of the same key keeping
\* their order.
pantry_suggest_usage(items) ==
  LET parsed == [i \in DOMAIN items |-> [items[i] EXCEPT !.name = Strip(@)]]
      focus_items == Filter(parsed, {p \in Range(parsed) : p.name # <<>>})
      Key(p) == IF "days_until_expiry" \in DOMAIN p /\ p.days_until_expiry # 0
                THEN p.days_until_expiry ELSE 9999
      Before(a, b) == Key(a) < Key(b) \/ (Key(a) = Key(b) /\ StrLess(a.name, b.name))
      Rank(i) ==
        Cardinality({k \in DOMAIN focus_items : Before(focus_items[k], focus_items[i])})
          + Cardinality({k \in 1..(i - 1) : ~Before(focus_items[i], focus_items[k])
                                              /\ ~Before(focus_items[k], focus_items[i])})
      names == [r \in DOMAIN focus_items |->
                 focus_items[CHOOSE i \in DOMAIN focus_items : Rank(i) = r - 1].name]
      Upto(n) == IF Len(names) < n THEN Len(names) ELSE n
      primary == SubSeq(names, 1, Upto(3))
      extra == SubSeq(names, 4, Upto(6))
      \* join_list of the one or two names the titles take.
      join_list(values) ==
        IF Len(values) = 1 THEN <<values[1]>>
        ELSE <<values[1], " and ", values[2]>>
  IN  IF names = <<>>
      THEN [suggestions |-> <<>>, note |-> "No valid items provided."]
      ELSE [suggestions |->
             <<[title |-> <<"Sheet-pan dinner with ", primary[1]>>,
                uses |-> primary, style |-> "one-pan"]>>
             \o (IF Len(primary) >= 2
                 THEN <<[title |-> <<"Comfort stew using ">> \o join_list(SubSeq(primary, 1, 2)),
                         uses |-> SubSeq(primary, 1, 2) \o extra, style |-> "stew"]>>
                 ELSE <<>>)
             \o <<[title |-> <<"Next-day lunch bowls featuring ", primary[1]>>,
                   uses |-> primary \o extra, style |-> "bowl"]>>]

\* A reviewer that asks for suggestions whether or not leftovers are wanted.
PantryReviewAlways(soon_expiring, plan, use_leftovers) ==
  LET suggestions == pantry_suggest_usage(soon_expiring)
      hints == suggestions.suggestions
  IN  [suggestions |-> suggestions,
       annotated_plan |->
         [idx \in DOMAIN plan |->
           [key \in DOMAIN plan[idx] \cup {"pantry_hint"} |->
             IF key # "pantry_hint" THEN plan[idx][key]
             ELSE IF hints # <<>> THEN hints[((idx - 1) % Len(hints)) + 1].title
             ELSE None]]]

\* PantryReviewAgent.run: the payload of its result.
pantry_review(soon_expiring, plan, use_leftovers) ==
  LET suggestions == pantry_suggest_usage(IF use_leftovers THEN soon_expiring ELSE <<>>)
      hints == suggestions.suggestions
  IN  [suggestions |-> suggestions,
       annotated_plan |->
         [idx \in DOMAIN plan |->
           [key \in DOMAIN plan[idx] \cup {"pantry_hint"} |->
             IF key # "pantry_hint" THEN plan[idx][key]
             ELSE IF hints # <<>> THEN hints[((idx - 1) % Len(hints)) + 1].title
             ELSE None]]]

\* The pantry reviewer is given the curated plan, the pantry items of the
\* request and its use_leftovers.
PantryReview ==
  /\ tool.pc = "done"
  /\ tool.name = "chef.build-menu"
  /\ \E use_leftovers \in BOOLEAN :
       \E soon_expiring \in
           Lists({[name |-> <<"r", "i", "c", "e">>, days_until_expiry |-> 2],
                  [name |-> <<"k", "a", "l", "e">>],
                  [name |-> <<" ">> \o <<"k", "a", "l", "e">>, days_until_expiry |-> 0],
                  [name |-> <<" ">>, days_until_expiry |-> 1]}, MaxItems) :
         tool' = [pc |-> "done", name |-> "pantry-reviewer",
                  input |-> [soon_expiring |-> soon_expiring, plan |-> tool.output,
                             use_leftovers |-> use_leftovers],
                  output |-> pantry_review(soon_expiring, tool.output, use_leftovers)]
  /\ UNCHANGED <<jobVars, agentVars, dbVars, architect, context>>

\* ------------------------------------------------------------------ SessionContext

\* The keys the agents store under, the values that cannot change, and the
\* dict objects, which can: data and snapshots hold references to them.
ContextKeys == {"household_profile", "plan_draft"}
Objects == {"profile"}
ContextValues == {"None", "draft"} \cup Objects

\* A SessionContext with nothing stored, no snapshot taken yet, and the dict
\* objects as they were made.
NewContext ==
  [pc |-> "live", data |-> <<>>, snapshot |-> <<>>, taken |-> FALSE,
   objects |-> [o \in Objects |-> "made"], last |-> [op |-> "new"]]

\* d[key] = value on a dict.
SetItem(d, key, value) == [k \in DOMAIN d \cup {key} |-> IF k = key THEN value ELSE d[k]]

\* self.data.get(key, default)
get(data, key, default) == IF key \in DOMAIN data THEN data[key] ELSE default

\* set(key, value)
ContextSet ==
  /\ context.pc = "live"
  /\ \E key \in ContextKeys, value \in ContextValues :
       context' = [context EXCEPT !.data = SetItem(@, key, value),
                                  !.last = [op |-> "set", key |-> key, value |-> value]]
  /\ UNCHANGED <<jobVars, agentVars, dbVars, architect, tool>>

\* get(key, default)
ContextGet ==
  /\ context.pc = "live"
  /\ \E key \in ContextKeys, default \in ContextValues :
       context' = [context EXCEPT !.last = [op |-> "get", key |-> key, default |-> default,
                                            result |-> get(context.data, key, default)]]
  /\ UNCHANGED <<jobVars, agentVars, dbVars, architect, tool>>

\* snapshot(): dict(self.data), a new dict with the same values.
ContextSnapshot ==
  /\ context.pc = "live"
  /\ context' = [context EXCEPT !.snapshot = context.data, !.taken = TRUE,
                                !.last = [op |-> "snapshot"]]
  /\ UNCHANGED <<jobVars, agentVars, dbVars, architect, tool>>

\* The caller stores under a key of the snapshot, new or not.
SnapshotAssign ==
  /\ context.pc = "live"
  /\ context.taken
  /\ \E key \in ContextKeys, value \in ContextValues :
       context' = [context EXCEPT !.snapshot = SetItem(@, key, value), !.last = [op |-> "assign"]]
  /\ UNCHANGED <<jobVars, agentVars, dbVars, architect, tool>>

\* The caller deletes a key of the snapshot.
SnapshotDelete ==
  /\ context.pc = "live"
  /\ context.taken
  /\ \E key \in DOMAIN context.snapshot :
       context' = [context EXCEPT !.snapshot = [k \in DOMAIN @ \ {key} |-> @[k]],
                                  !.last = [op |-> "delete"]]
  /\ UNCHANGED <<jobVars, agentVars, dbVars, architect, tool>>

\* The caller changes a dict it reached through the snapshot.
SnapshotMutate ==
  /\ context.pc = "live"
  /\ context.taken
  /\ \E key \in DOMAIN context.snapshot :
       /\ context.snapshot[key] \in Objects
       /\ context' = [context EXCEPT !.objects[context.snapshot[key]] = "changed",
                                     !.last = [op |-> "mutate"]]
  /\ UNCHANGED <<jobVars, agentVars, dbVars, architect, tool>>

\* ------------------------------------------------------------------ specifications

\* The task of the newest job; no older job has one.
RunnerStep ==
  \/ MarkJobStarted(NewestJob)
  \/ EmitStarted(NewestJob)
  \/ ResolveHousehold(NewestJob)
  \/ DayCheck(NewestJob)
  \/ EmitPlanning(NewestJob)
  \/ RunSingleDay(NewestJob)
  \/ SaveCheck(NewestJob)
  \/ SavePlan(NewestJob)
  \/ MarkJobCompleted(NewestJob)
  \/ EmitCompleted(NewestJob)
  \/ MarkJobFailedEvent(NewestJob)
  \/ EmitError(NewestJob)

\* The whole-week runs, taken only after a single-day run came up empty.
FallbackStep ==
  \/ RetryWholeWeek(NewestJob)
  \/ RunFallbackWeek(NewestJob)

\* The returns of the task after it found the job cancelled.
StopStep ==
  \/ EmitCancelledBeforeDay(NewestJob)
  \/ EmitCancelledBeforeSaving(NewestJob)

\* The client cancels the job it created.
CancelStep ==
  \/ CancelRead(NewestJob)
  \/ CancelCommit(NewestJob)
  \/ CancelEvent(NewestJob)

StreamStep ==
  \/ \E job_id \in JobIds \cup {Len(jobs) + 1} : OpenStream(job_id)
  \/ StreamGetJob
  \/ StreamListEvents

\* The runner on its own, with a workflow whose single-day runs may come up
\* empty: nobody cancels the job.
Next ==
  \/ RunnerStep
  \/ FallbackStep

Spec == Init /\ [][Next]_vars

\* A workflow whose single-day runs never come up empty.
NoEmptyInit ==
  /\ \E household_id \in HouseholdIds : UsedDb(household_id)
  /\ dialect = DefaultDialect
  /\ cancels = NoCancels
  /\ stream = ClosedStream
  /\ emptyLeft = 0
  /\ AgentsIdle
  /\ ToolsIdle

\* The runner and the cancel requests.
CancelNext ==
  \/ RunnerStep
  \/ StopStep
  \/ CancelStep

CancelSpec == NoEmptyInit /\ [][CancelNext]_vars

\* The runner, the cancel requests and one event stream.
StreamNext ==
  \/ RunnerStep
  \/ StopStep
  \/ CancelStep
  \/ StreamStep

StreamSpec == NoEmptyInit /\ [][StreamNext]_vars

\* One call of generate(), for a single day or for the whole week.
WorkflowInit ==
  /\ UsedDb(1)
  /\ dialect = DefaultDialect
  /\ cancels = NoCancels
  /\ stream = ClosedStream
  /\ emptyLeft = 0
  /\ \E days \in {None} \cup {<<day>> : day \in Range(DAY_ORDER)} :
       wf = [IdleWorkflow EXCEPT !.pc = "profile", !.days = days]
  /\ ToolsIdle

WorkflowNext ==
  \/ ProfilePhase
  \/ ArchitectPhase
  \/ CuratePhase
  \/ CreateReviewTasks
  \/ RunNutritionTask
  \/ RunPantryTask
  \/ run_parallel
  \/ SynthesisPhase
  \/ ReturnResult

WorkflowSpec == WorkflowInit /\ [][WorkflowNext]_vars

\* One call of MealArchitectAgent.run, for a catalogue, a kitchen and a
\* profile.
ArchitectInit ==
  /\ UsedDb(1)
  /\ dialect = DefaultDialect
  /\ cancels = NoCancels
  /\ stream = ClosedStream
  /\ emptyLeft = 0
  /\ AgentsIdle
  /\ \E keep \in SUBSET Range(CatalogueRecipes),
        kitchen_tools \in {<<>>,
                           <<[label |-> <<" ", "P", "a", "n">>, category |-> None, quantity |-> 0]>>,
                           <<[label |-> <<" ", "P", "a", "n">>, category |-> None, quantity |-> 2]>>,
                           <<[label |-> <<"s", "p", "o", "o", "n">>,
                              category |-> <<"W", "o", "k", "s">>, quantity |-> 1]>>},
        preferences \in {<<>>, <<<<"pasta">>, <<"oats">>>>}, eco_friendly \in BOOLEAN :
       LET primary == IF preferences # <<>> THEN preferences[1] ELSE <<"balanced">>
       IN  architect =
             [pc |-> "start", catalogue |-> Filter(CatalogueRecipes, keep),
              kitchen_tools |-> kitchen_tools,
              primary |-> IF eco_friendly THEN <<"plant-based">> \o primary ELSE primary,
              recipe_pool |-> <<>>, slot_pools |-> [slot \in Range(MEAL_SLOTS) |-> <<>>],
              used_recipe_ids |-> {}, plan |-> <<>>, day_index |-> 0, slot_index |-> 0]
  /\ tool = IdleCall
  /\ context = IdleCall

ArchitectNext ==
  \/ ResolvePools
  \/ PlanSlot
  \/ ArchitectReturn

ArchitectSpec == ArchitectInit /\ [][ArchitectNext]_vars


\* One call of an MCP tool, or one SessionContext in use.
ToolInit ==
  /\ UsedDb(1)
  /\ dialect = DefaultDialect
  /\ cancels = NoCancels
  /\ stream = ClosedStream
  /\ emptyLeft = 0
  /\ AgentsIdle
  /\ architect = IdleCall
  /\ \/ \E members \in Lists(Range(Profiles), MaxMembers) \ {<<>>} :
          /\ tool = [pc |-> "call", name |-> "household.profile", input |-> members,
                     output |-> None]
          /\ context = IdleCall
     \/ \E plan_items \in Lists(Range(PlanItems), MaxItems) :
          /\ tool = [pc |-> "call", name |-> "shopping-list.generate", input |-> plan_items,
                     output |-> None]
          /\ context = IdleCall
     \/ \E plan \in Lists(Range(ChefItems), MaxPlan) :
          /\ tool = [pc |-> "call", name |-> "chef.build-menu", input |-> plan,
                     output |-> None]
          /\ context = IdleCall
     \* The model's answer: a full day name in capitals, the label the prompt
     \* shows, a day with blanks around it, a word that is no day, and an entry
     \* without day or meal.
     \/ \E plan \in Lists(Range(
            <<[day |-> <<"T", "U", "E", "S", "D", "A", "Y">>, meal |-> <<"d", "i", "n", "n", "e", "r">>, title |-> <<"S", "t", "e", "w">>],
              [day |-> <<"M", "o", "n">>, meal |-> <<"L", "U", "N", "C", "H">>, title |-> None],
              [day |-> <<" ", "m", "o", "n", "d", "a", "y", " ">>, meal |-> <<" ", "l", "u", "n", "c", "h">>, title |-> None],
              [day |-> <<"F", "u", "n", "d", "a", "y">>, meal |-> <<"B", "r", "u", "n", "c", "h">>, title |-> None],
              [day |-> None, meal |-> None, title |-> None]>>), MaxRaw) :
          \E target_days \in {<<DAY_LABELS[1]>>, <<DAY_LABELS[2]>>,
                              <<<<"t", "u", "e", "s", "d", "a", "y">>, <<"M", "O", "N">>>>,
                              DAY_LABELS} :
            /\ tool = [pc |-> "call", name |-> "chef._normalize_plan",
                       input |-> [plan |-> plan, target_days |-> target_days],
                       output |-> None]
            /\ context = IdleCall
     \/ tool = IdleCall /\ context = NewContext

ToolNext ==
  \/ HouseholdProfile
  \/ ShoppingListGenerate
  \/ ChefBuildMenu
  \/ PantryReview
  \/ NormalizePlan
  \/ ContextSet
  \/ ContextGet
  \/ ContextSnapshot
  \/ SnapshotAssign
  \/ SnapshotDelete
  \/ SnapshotMutate

ToolSpec == ToolInit /\ [][ToolNext]_vars

\* The household assistant, with no dialog begun.
DialogInit ==
  /\ UsedDb(1)
  /\ dialect = DefaultDialect
  /\ cancels = NoCancels
  /\ stream = ClosedStream
  /\ emptyLeft = 0
  /\ AgentsIdle
  /\ architect = IdleCall
  /\ context = IdleCall
  /\ tool = [pc |-> "dialog", name |-> "household-assistant", sessions |-> <<>>,
             creating |-> <<>>]

DialogNext ==
  \/ HandleMessage
  \/ CreateMemberReturns

DialogSpec == DialogInit /\ [][DialogNext]_vars


\* ------------------------------------------------------------------ properties

Last(s) == s[Len(s)]

\* The plan that was there before the job, and the session id the job saves under.
ExistingPlans == {p \in plans : p.session_id = Text("plan-1")}
FinalSessionId(j) == <<"job-", j, "-final">>
PlansOf(j) == {p \in plans : p.session_id = FinalSessionId(j)}

\* C1: once a job's status is completed, failed or cancelled, no step of the
\* runner or of a cancel request changes it.
TerminalStatusesAbsorbing ==
  [][\A j \in JobIds :
       jobs[j].status \in TerminalStatuses => jobs'[j].status = jobs[j].status]_vars

\* The runner has found the job cancelled at the check before day `day`
\* (8 stands for the check before saving).
StoppedBefore(j, day) ==
  \/ /\ day <= Len(DAY_ORDER)
     /\ runner[j].day = day
     /\ \/ runner[j].pc = "cancelled_day"
        \/ \E e \in Range(events) :
             e.job_id = j /\ e.stage = "cancelled"
               /\ e.message = <<"Cancelled before ", DAY_ORDER[day]>>
  \/ /\ day = Len(DAY_ORDER) + 1
     /\ \/ runner[j].pc = "cancelled_save"
        \/ \E e \in Range(events) :
             e.job_id = j /\ e.stage = "cancelled"
               /\ e.message = Text("Cancelled before saving")

\* What holds from there on: the job is cancelled, no workflow ran and no
\* planning or planned event was added for a day from `day` on, and no plan
\* was saved.
NothingFrom(j, day) ==
  /\ jobs[j].status = "cancelled"
  /\ jobs[j].plan_id = 0
  /\ \A i \in DOMAIN runner[j].runs : DAY_INDEX[runner[j].runs[i].day] + 1 < day
  /\ \A e \in Range(events) :
       e.job_id = j /\ e.stage \in {"planning", "planned"}
         => DAY_INDEX[e.payload.day] + 1 < day
  /\ PlansOf(j) = {}
  /\ runner[j].pc \in {"cancelled_day", "cancelled_save", "done"}

\* A check made while the job is cancelled sends the runner to its cancelled
\* event, and that event is the last thing the runner does.
ChecksObeyCancel(j) ==
  /\ runner[j].pc \in {"day_check", "save_check"} /\ jobs[j].status = "cancelled"
       /\ runner'[j] # runner[j]
     => runner'[j].pc = (IF runner[j].pc = "day_check" THEN "cancelled_day" ELSE "cancelled_save")
  /\ runner[j].pc \in {"cancelled_day", "cancelled_save"} /\ runner'[j] # runner[j]
     => /\ runner'[j].pc = "done"
        /\ Len(events') = Len(events) + 1
        /\ Last(events').job_id = j
        /\ Last(events').stage = "cancelled"

\* C2: a job found cancelled at the check after day N (before day N+1, or
\* before saving after Sunday) starts no workflow and emits no planning or
\* planned event for a day after N, saves no plan, appends a cancelled event
\* and stays cancelled.
CancelledAtDayBoundary ==
  /\ [](\A j \in JobIds : \A day \in 2..(Len(DAY_ORDER) + 1) :
          StoppedBefore(j, day) => NothingFrom(j, day))
  /\ [][\A j \in JobIds : ChecksObeyCancel(j)]_vars

\* Tuesday was planned, the cancel came in, the runner stopped before Wednesday.
CancelledBeforeWednesday ==
  LET j == NewestJob
  IN  /\ runner[j].pc = "done"
      /\ Last(events).message = <<"Cancelled before ", "Wed">>
      /\ \E e \in Range(events) : e.job_id = j /\ e.message = <<"Tue", " planned">>
      /\ \E e \in Range(events) : e.job_id = j /\ e.message = Text("Cancelled via API")
      /\ jobs[j].status = "cancelled"

\* C3: when the run_plan_job task of a job has ended, the job's status is
\* completed, failed or cancelled.
EndedTaskLeavesTerminalStatus ==
  \A j \in JobIds : runner[j].pc = "done" => jobs[j].status \in TerminalStatuses

\* The task ended through the top-level handler, after save_plan raised.
EndedAfterSaveRaised ==
  /\ runner[NewestJob].pc = "done"
  /\ runner[NewestJob].error = MsgSaveFailed
  /\ jobs[NewestJob].status = "failed"

\* C4: a job that has ended failed or cancelled has written no plan, and the
\* plan its household and week had before is still there.
NoPlanUnlessCompleted ==
  \A j \in JobIds :
    /\ runner[j].pc = "done"
    /\ cancels.commit = 0
    /\ jobs[j].status \in {"failed", "cancelled"}
    => /\ PlansOf(j) = {}
       /\ ExistingPlans # {}

\* The timeline events a job has aggregated that came out of a whole-week run:
\* the plan in their payload is a whole-week plan.
WeekRunEvents(j) ==
  {e \in Range(runner[j].aggregated_timeline) :
     /\ e.payload # None
     /\ \E day \in Range(DAY_ORDER) : e.payload.plan \in WeekPlans(day)}

\* C5: when the single-day run of a day yields no usable plan and the
\* whole-week run yields entries for the day, the day's entries are those of
\* the whole-week result and every timeline event taken from the whole-week
\* run is tagged origin=fallback.
FallbackEventsTaggedFallback ==
  \A j \in JobIds :
    /\ \A e \in WeekRunEvents(j) : e.origin = "fallback"
    /\ \A e \in Range(events) :
         /\ e.job_id = j /\ e.stage = "planned"
         /\ \E i \in DOMAIN runner[j].runs :
              runner[j].runs[i] = [day |-> e.payload.day, days |-> None, raised |-> None]
         => \A entry \in Range(e.payload.entries) :
              entry = Entry(e.payload.day, "Dinner", "week")

\* The whole-week runs made for `day`.
FallbackRuns(j, day) ==
  {i \in DOMAIN runner[j].runs :
     runner[j].runs[i].day = day /\ runner[j].runs[i].days = None}

\* C6: for each day the runner makes at most one whole-week run, whichever
\* way the single-day run came up empty.
SingleFallbackPerDay ==
  \A j \in JobIds : \A day \in Range(DAY_ORDER) : Cardinality(FallbackRuns(j, day)) <= 1

\* The workflow errors whose text holds none of the empty-plan phrases.
StructuralErrors == {MsgEmptyResponse}

\* What the runner has done once the single-day run `i` raised `exc`.
FailedWithoutRetry(j, i, exc) ==
  LET task == runner[j]
      day == task.runs[i].day
  IN  /\ i = Len(task.runs)
      /\ FallbackRuns(j, day) = {}
      /\ jobs[j].status \in {"failed", "cancelled"}
      /\ task.pc \in {"failed_event", "error_event", "done"}
      /\ task.pc # "failed_event"
           => \E e \in Range(events) :
                e.job_id = j /\ e.stage = "error" /\ e.message = exc
      /\ task.pc = "done"
           => \E e \in Range(events) :
                /\ e.job_id = j /\ e.stage = "error"
                /\ e.message = <<day, " failed">>
                /\ e.payload = [error |-> exc]
      /\ \A e \in Range(events) :
           e.job_id = j /\ e.stage \in {"planning", "planned", "fallback"}
             => /\ DAY_INDEX[e.payload.day] <= DAY_INDEX[day]
                /\ e.stage # "planning" => e.payload.day # day

\* C7: when the single-day run raises an exception whose message holds none
\* of the empty-plan phrases, the runner makes no fallback run, marks the job
\* failed with the error text, appends an error event carrying it, and plans
\* no later day.
StructuralErrorIsFatal ==
  \A j \in JobIds : \A i \in DOMAIN runner[j].runs :
    /\ runner[j].runs[i].days # None
    /\ runner[j].runs[i].raised \in StructuralErrors
    => FailedWithoutRetry(j, i, runner[j].runs[i].raised)

\* Wednesday's single-day run raised a structural error and the task is over.
FailedOnWednesday ==
  LET task == runner[NewestJob]
  IN  /\ task.pc = "done"
      /\ Len(task.runs) = 3
      /\ Last(task.runs) = [day |-> "Wed", days |-> <<"Wed">>, raised |-> MsgEmptyResponse]
      /\ jobs[NewestJob].status = "failed"
      /\ Last(events).payload = [error |-> MsgEmptyResponse]

\* C8: in every state where a job's status is failed, its event log holds an
\* error event carrying the failure text.
FailedJobHasErrorEvent ==
  \A j \in JobIds :
    jobs[j].status = "failed"
      => \E e \in Range(events) :
           /\ e.job_id = j
           /\ e.stage = "error"
           /\ runner[j].error # None => e.message = runner[j].error

\* C9: a consumer that has read a job's stream from its start to its end has
\* received every event of the job's log.
StreamDeliversEveryEvent ==
  stream.pc = "ended" => stream.delivered = JobEvents(stream.job_id)

\* C10: the events a stream yields are in strictly increasing id order, none
\* twice, each one a row of the stream's job, and a poll yields only ids
\* greater than the last id yielded before it.
StreamOrderedAndOwn ==
  /\ [](/\ \A i, k \in DOMAIN stream.delivered :
             i < k => stream.delivered[i].id < stream.delivered[k].id
        /\ \A i \in DOMAIN stream.delivered :
             /\ stream.delivered[i].job_id = stream.job_id
             /\ stream.delivered[i] \in Range(events))
  /\ [][/\ Len(stream'.delivered) >= Len(stream.delivered)
        /\ \A i \in DOMAIN stream'.delivered :
             IF i <= Len(stream.delivered)
             THEN stream'.delivered[i] = stream.delivered[i]
             ELSE stream.delivered # <<>> => stream'.delivered[i].id > Last(stream.delivered).id]_vars

\* The stream of job 2 has yielded rows in more than one poll, and the table
\* holds rows of job 1 as well.
StreamResumed ==
  /\ stream.job_id = 2
  /\ stream.pc = "ended"
  /\ Len(stream.delivered) >= 4
  /\ stream.last_event_id = Last(stream.delivered).id
  /\ \E e \in Range(events) : e.job_id = 1
  /\ \E i \in DOMAIN stream.delivered : stream.delivered[i].stage = "cancelled"

\* The places in a job's log of the events of a stage.
Places(log, stage) == {i \in DOMAIN log : log[i].stage = stage}

\* The places, in order, as a sequence.
RECURSIVE InOrder(_)
InOrder(places) ==
  IF places = {} THEN <<>>
  ELSE LET first == CHOOSE i \in places : \A k \in places : i <= k
       IN  <<first>> \o InOrder(places \ {first})

\* The protocol on one log.
WeekOrder(log) ==
  LET planning == InOrder(Places(log, "planning"))
      planned == InOrder(Places(log, "planned"))
  IN  /\ \A i \in Places(log, "planning") \cup Places(log, "planned") :
           \E k \in Places(log, "started") : k < i
      /\ Len(planning) <= Len(DAY_ORDER)
      /\ \A n \in DOMAIN planning : log[planning[n]].payload.day = DAY_ORDER[n]
      /\ Len(planned) <= Len(planning)
      /\ \A n \in DOMAIN planned :
           /\ log[planned[n]].payload.day = DAY_ORDER[n]
           /\ planning[n] < planned[n]
           /\ n < Len(planning) => planned[n] < planning[n + 1]
      /\ \A n \in DOMAIN planning : n > 1 => n - 1 \in DOMAIN planned
      /\ \A i \in Places(log, "completed") :
           \E k \in Places(log, "planned") : k < i /\ log[k].payload.day = "Sun"

\* C11: in a job's log the started event comes before every planning and
\* planned event, the planning events go Mon..Sun with no day skipped or
\* repeated, a day's planned event lies between its planning event and the
\* next day's, and a completed event comes only after the planned event of Sun.
WeekOrderProtocol == \A j \in JobIds : WeekOrder(JobEvents(j))

\* A whole week went through, one day of it by way of a fallback.
WeekCompletedWithFallback ==
  LET log == JobEvents(NewestJob)
  IN  /\ Places(log, "completed") # {}
      /\ Places(log, "fallback") # {}
      /\ Cardinality(Places(log, "planned")) = 7

\* The phase an agent belongs to.
PhaseOf(agent) ==
  CASE agent = "household-profiler" -> 1
    [] agent = "meal-architect" -> 2
    [] agent = "chef-curator" -> 3
    [] agent = "nutrition-reviewer" -> 4
    [] agent = "pantry-reviewer" -> 4
    [] agent = "plan-synthesizer" -> 5

PhaseAgents(phase) ==
  {agent \in {"household-profiler", "meal-architect", "chef-curator", "nutrition-reviewer",
              "pantry-reviewer", "plan-synthesizer"} : PhaseOf(agent) = phase}

\* The places in the log of a call where something of this kind was noted.
Noted(log, what) == {i \in DOMAIN log : log[i].what = what}

\* The timeline of a call that went through.
FullTimeline ==
  <<AgentResult("household-profiler", "profile.ready"),
    AgentResult("meal-architect", "plan.candidate"),
    AgentResult("chef-curator", "plan.curated"),
    AgentResult("nutrition-reviewer", "plan.review.nutrition"),
    AgentResult("pantry-reviewer", "plan.review.pantry"),
    AgentResult("plan-synthesizer", "plan.final")>>

\* C12: the phases of a generate() run start in the order profile, architect,
\* curate, the two reviewers, synthesis; a phase starts only after every agent
\* of the phase before it has returned, so synthesis only after both
\* reviewers; and the timeline returned lists one result per agent in that
\* order.
PhasesInOrderAndJoined ==
  LET log == wf.log
  IN  /\ \A i, k \in Noted(log, "start") :
           /\ i < k => PhaseOf(log[i].agent) <= PhaseOf(log[k].agent)
           /\ i # k => log[i].agent # log[k].agent
      /\ \A i \in Noted(log, "start") :
           \A agent \in PhaseAgents(PhaseOf(log[i].agent) - 1) :
             \E k \in Noted(log, "return") : k < i /\ log[k].agent = agent
      /\ wf.pc = "returned" => wf.timeline = FullTimeline

\* A call for Wednesday alone has returned its result.
WednesdayGenerated ==
  /\ wf.pc = "returned"
  /\ wf.days = <<"Wed">>
  /\ Len(wf.timeline) = 6
  /\ Cardinality(Noted(wf.log, "return")) = 6

\* C13: when a phase raises, generate() raises that failure, returns nothing
\* (no timeline, no final plan) and starts no later phase; when a reviewer
\* raises, synthesis does not run.
PhaseFailurePropagates ==
  LET log == wf.log
      raises == Noted(log, "raise")
  IN  /\ raises # {} =>
           /\ wf.pc \in {"gather", "raised"}
           /\ wf.timeline = None
           /\ \A i \in raises : \A k \in Noted(log, "start") :
                i < k => PhaseOf(log[k].agent) <= PhaseOf(log[i].agent)
      /\ wf.pc = "raised" =>
           /\ raises # {}
           /\ \E i \in raises :
                /\ \A k \in raises : i <= k
                /\ wf.raised = log[i].exc

\* The pantry reviewer raised after the nutrition reviewer had returned, and
\* generate() raised the pantry reviewer's exception.
PantryReviewFailed ==
  /\ wf.pc = "raised"
  /\ wf.raised = MsgEmptyResponse
  /\ Last(wf.log) = Raised("pantry-reviewer", MsgEmptyResponse)
  /\ \E i \in DOMAIN wf.log : wf.log[i] = Returned("nutrition-reviewer")

\* C14: once a job has saved its plan, the household and week have exactly
\* one plan, and the entries it is read back with are exactly the entries
\* that save wrote: none of the plan it replaced, none twice.
ReSaveReplaces ==
  \A j \in JobIds :
    PlansOf(j) # {}
      => LET same == ExistingPlan(plans, jobs[j].household_id, jobs[j].week_start)
         IN  /\ Cardinality(same) = 1
             /\ \A p \in same :
                  p.entries = PlanEntries(runner[j].aggregated_entries, jobs[j].week_start,
                                          _normalize_attendee_map(runner[j].slot_attendees))

\* C15: the plan MealArchitectAgent.run returns has exactly 21 entries, one
\* for each day of Mon..Sun and each meal of Breakfast, Lunch, Dinner, and no
\* two entries for the same day and meal, whatever the catalogue and the
\* kitchen tools are.
WeekHasEverySlotOnce ==
  architect.pc = "done"
    => /\ Len(architect.plan) = 21
       /\ \A day \in Range(DAY_ORDER), meal \in Range(MEAL_SLOTS) :
            Cardinality({i \in DOMAIN architect.plan :
                           architect.plan[i].day = day /\ architect.plan[i].meal = meal}) = 1

\* run() returned a week planned from a single recipe, for a kitchen with
\* tools.
WeekPlannedFromOneRecipe ==
  /\ architect.pc = "done"
  /\ Len(architect.catalogue) = 1
  /\ Normalized(architect.kitchen_tools, "label") # <<>>

\* The pool the planning loop hands to pick_unique_recipe for a slot, and the
\* ids of a list of recipes.
PoolOf(slot) ==
  IF architect.slot_pools[slot] # <<>> THEN architect.slot_pools[slot] ELSE architect.recipe_pool
Ids(recipes) == {r.id : r \in Range(recipes)}

\* C16: while every slot's pool has at least as many distinct recipe ids as
\* the plan has entries (21 ids for the whole week), no recipe id is planned
\* twice; an entry repeats an id planned before it only when every id of its
\* slot's pool and of the recipe pool was planned before it, and then it is
\* the pool's recipe at position (day_index * 3 + slot_index) mod pool size.
ReuseOnlyWhenExhausted ==
  architect.pc \in {"plan", "done"}
    => LET plan == architect.plan
           Before(i) == {plan[k].recipe_id : k \in 1..(i - 1)}
           Position(i) ==
             DAY_INDEX[plan[i].day] * 3 + (CHOOSE k \in 0..2 : MEAL_SLOTS[k + 1] = plan[i].meal)
       IN  /\ (\A slot \in Range(MEAL_SLOTS) : Cardinality(Ids(PoolOf(slot))) >= Len(plan))
                => \A i \in DOMAIN plan : plan[i].recipe_id \notin Before(i)
           /\ \A i \in DOMAIN plan :
                plan[i].recipe_id \in Before(i)
                  => LET pool == PoolOf(plan[i].meal)
                     IN  /\ Ids(pool) \cup Ids(architect.recipe_pool) \subseteq Before(i)
                         /\ plan[i].recipe_id = pool[(Position(i) % Len(pool)) + 1].id

\* run() returned a week for which every slot had several recipes in its
\* pool, and in which an entry repeats a recipe planned before it.
WeekCycledThroughPool ==
  /\ architect.pc = "done"
  /\ \A slot \in Range(MEAL_SLOTS) : Cardinality(Ids(PoolOf(slot))) >= 2
  /\ \E i \in DOMAIN architect.plan, k \in DOMAIN architect.plan :
       k < i /\ architect.plan[k].recipe_id = architect.plan[i].recipe_id

\* The recipe without the requirements that are ubiquitous tools.
OtherRequirements(recipe) ==
  [recipe EXCEPT !.required_tools =
     Filter(@, {t \in Range(@) : normalize(t) \notin ubiquitous_tools})]

\* C18: for every recipe of the catalogue and every kitchen, tool matching
\* gives the answer it gives for the recipe without its ubiquitous
\* requirements, and a recipe that requires ubiquitous tools only (such as
\* "knife") is in the recipe pool, with zero kitchen tools as with any.
UbiquitousToolsSatisfied ==
  architect.pc \in {"plan", "done"}
    => LET labels == Normalized(architect.kitchen_tools, "label")
           categories == Normalized(architect.kitchen_tools, "category")
       IN  \A recipe \in Range(architect.catalogue) :
             /\ matches_available_tools(recipe, labels, categories)
                  = matches_available_tools(OtherRequirements(recipe), labels, categories)
             /\ OtherRequirements(recipe).required_tools = <<>>
                  => recipe \in Range(architect.recipe_pool)

\* The kitchen has a spoon and no knife, the one recipe of the catalogue
\* requires "Knife ", and it is planned.
KnifeRecipePlannedWithoutKnife ==
  /\ architect.pc = "done"
  /\ Normalized(architect.kitchen_tools, "label") = <<<<"s", "p", "o", "o", "n">>>>
  /\ Range(architect.catalogue) = {CatalogueRecipes[1]}
  /\ architect.plan[1].recipe_id = "oats"

\* The number of times a name occurs among the members' labels of a field,
\* blanks around it and case aside.
Occurrences(members, field, name) ==
  Cardinality({pos \in UNION {{<<m, k>> : k \in DOMAIN members[m][field]} : m \in DOMAIN members} :
                 Lower(Strip(members[pos[1]][field][pos[2]])) = name})

\* A list of the profile is in order, names each name once and counts right.
InProfileOrder(list, members, field) ==
  /\ \A i \in DOMAIN list, j \in DOMAIN list :
       i < j => /\ list[i].count >= list[j].count
                /\ list[i].count = list[j].count => StrLess(list[i].name, list[j].name)
                /\ list[i].name # list[j].name
  /\ \A i \in DOMAIN list : list[i].count = Occurrences(members, field, list[i].name)

\* C17: for a household of one member or more, household_profile returns
\* allergens and top_likes sorted by descending count, equal counts by
\* ascending name, each name once, with the number of times it occurs across
\* the members after strip and lower-casing.
ProfileSortedByCount ==
  (tool.pc = "done" /\ tool.name = "household.profile")
    => /\ InProfileOrder(tool.output.allergens, tool.input, "allergens")
       /\ InProfileOrder(tool.output.top_likes, tool.input, "likes")

\* The profile of two members who name "Nuts " and "soy", and "soy" and
\* "egg": soy comes first with two, then egg before nuts.
SoyBeforeEggBeforeNuts ==
  /\ tool.pc = "done"
  /\ tool.name = "household.profile"
  /\ tool.input = <<Profiles[1], Profiles[4]>>
  /\ tool.output.allergens = <<[name |-> <<"s", "o", "y">>, count |-> 2],
                               [name |-> <<"e", "g", "g">>, count |-> 1],
                               [name |-> <<"n", "u", "t", "s">>, count |-> 1]>>

\* The group of the shopping list with the given name holds the text.
InGroup(category, text) ==
  category \in DOMAIN tool.output.groups /\ text \in Range(tool.output.groups[category])

\* A list of texts is in ascending order without duplicates.
Ascending(list) == \A i \in DOMAIN list, j \in DOMAIN list : i < j => StrLess(list[i], list[j])

\* Every ingredient is in exactly one group, the groups are sorted and free
\* of duplicates, and the all list is the sorted union of the groups.
GroupsPartitionIngredients ==
  LET groups == tool.output.groups
  IN  /\ \A text \in Range(raw_ingredients(tool.input)) :
           Cardinality({category \in DOMAIN groups : text \in Range(groups[category])}) = 1
      /\ \A category \in DOMAIN groups : Ascending(groups[category])
      /\ Ascending(tool.output.all)
      /\ Range(tool.output.all) = UNION {Range(groups[category]) : category \in DOMAIN groups}

\* The ingredient has a keyword of one of the first n categories in it.
HasKeywordOf(n, text) ==
  \E i \in 1..n : \E k \in Range(Categories[i].keywords) : Contains(Lower(text), k)

\* C19 as stated: every ingredient with "chicken" in it is in the protein
\* group and every one with "rice" in it in the grains group; every
\* ingredient is in exactly one group, the groups are sorted and free of
\* duplicates, and the all list is their sorted union.
ChickenIsProteinRiceIsGrains ==
  (tool.pc = "done" /\ tool.name = "shopping-list.generate")
    => /\ \A text \in Range(raw_ingredients(tool.input)) :
            /\ Contains(Lower(text), <<"c", "h", "i", "c", "k", "e", "n">>) => InGroup("protein", text)
            /\ Contains(Lower(text), <<"r", "i", "c", "e">>) => InGroup("grains", text)
       /\ GroupsPartitionIngredients

\* C19, amended: an ingredient with "chicken" in it and no fresh-produce
\* keyword is in the protein group, and one with "rice" in it and no
\* fresh-produce or protein keyword in the grains group; every ingredient is
\* in exactly one group, the groups are sorted and free of duplicates, and
\* the all list is their sorted union.
FirstKeywordGroupDecides ==
  (tool.pc = "done" /\ tool.name = "shopping-list.generate")
    => /\ \A text \in Range(raw_ingredients(tool.input)) :
            /\ (Contains(Lower(text), <<"c", "h", "i", "c", "k", "e", "n">>) /\ ~HasKeywordOf(1, text))
                 => InGroup("protein", text)
            /\ (Contains(Lower(text), <<"r", "i", "c", "e">>) /\ ~HasKeywordOf(2, text))
                 => InGroup("grains", text)
       /\ GroupsPartitionIngredients

\* The list for "Chicken " and "rice", and for "salt" and "rice": Chicken
\* under protein, rice once under grains, and all three in the all list.
ChickenAndRiceListed ==
  /\ tool.pc = "done"
  /\ tool.name = "shopping-list.generate"
  /\ tool.input = <<PlanItems[1], PlanItems[4]>>
  /\ tool.output.groups["protein"] = <<<<"C", "h", "i", "c", "k", "e", "n">>>>
  /\ tool.output.groups["grains"] = <<<<"r", "i", "c", "e">>>>
  /\ Len(tool.output.all) = 3

\* What a caller sees of a value get() returned: the value, and for a dict
\* object what is in it.
Seen(ctx, value) ==
  [value |-> value, holds |-> IF value \in Objects THEN ctx.objects[value] ELSE "itself"]

\* C20: after set(k, v), get(k, d) returns v for every d; a get leaves the
\* data as it was and returns the default for an absent key; and no change
\* to a snapshot (a key stored or deleted, a stored dict changed) changes
\* what get() returns on the live context.
SessionContextContract ==
  [][(context.pc = "live" /\ context'.pc = "live")
       => /\ context'.last.op = "set"
               => \A d \in ContextValues :
                    get(context'.data, context'.last.key, d) = context'.last.value
          /\ context'.last.op = "get"
               => /\ context'.data = context.data
                  /\ context'.last.key \notin DOMAIN context.data
                       => context'.last.result = context'.last.default
          /\ context'.last.op \in {"assign", "delete", "mutate"}
               => \A key \in ContextKeys, d \in ContextValues :
                    Seen(context', get(context'.data, key, d))
                      = Seen(context, get(context.data, key, d))]_vars

\* C21: whichever way the LLM path fails, the runner classifies the failure
\* of the single-day run the same way: a single-day run that raised is
\* followed by the whole-week run for the same day, and none fails the job
\* at once.
EveryLlmFailureFallsBack ==
  \A j \in JobIds : \A i \in DOMAIN runner[j].runs :
    LET task == runner[j]
    IN  /\ task.runs[i].days # None
        /\ task.runs[i].raised \in WorkflowErrors
        => \/ i = Len(task.runs) /\ task.pc = "retry_week"
           \/ /\ i < Len(task.runs)
              /\ task.runs[i + 1].day = task.runs[i].day
              /\ task.runs[i + 1].days = None


\* Attendance as an override that prevails over the per-meal toggle.
OverrideDecides(member, day_label, slot) ==
  LET schedule == member.meal_schedule
  IN  IF day_label \in DOMAIN schedule /\ slot \in DOMAIN schedule[day_label]
      THEN schedule[day_label][slot]
      ELSE CASE slot = "Breakfast" -> member.eats_breakfast
             [] slot = "Lunch" -> member.eats_lunch
             [] slot = "Dinner" -> member.eats_dinner

\* C22: in the attendee map the runner builds for a job, a member is listed
\* for a day and slot exactly when the schedule override for that day and
\* slot is true, whatever the per-meal toggle is, or, without an override,
\* when the toggle of the meal is true.
OverridePrevailsOverToggle ==
  \A j \in JobIds :
    DOMAIN runner[j].slot_attendees # {}
      => \A key \in DOMAIN runner[j].slot_attendees :
           LET members == Households[jobs[j].household_id].members
           IN  \A i \in DOMAIN members :
                 members[i].id \in Range(runner[j].slot_attendees[key])
                   <=> OverrideDecides(members[i], key[1], key[2])

\* C23: once a job has saved its plan, every entry the plan is read back
\* with has a non-empty attendee list, the one the attendee map holds for the
\* day and meal of the plan item it came from, and a plan item has an entry
\* exactly when the map holds an attendee for its day and meal.
PersistedEntriesAreGatedItems ==
  \A j \in JobIds : \A p \in PlansOf(j) :
    LET attendee_map == _normalize_attendee_map(runner[j].slot_attendees)
        plan_items == runner[j].aggregated_entries
        EntryOf(item) ==
          [day |-> p.week_start + DAY_INDEX[item.day], slot |-> item.meal,
           title |-> item.title,
           attendee_ids |-> Attendees(attendee_map, item.day, item.meal)]
    IN  /\ \A e \in Range(p.entries) :
             /\ e.attendee_ids # <<>>
             /\ \E i \in DOMAIN plan_items : e = EntryOf(plan_items[i])
        /\ \A i \in DOMAIN plan_items :
             EntryOf(plan_items[i]) \in Range(p.entries)
               <=> Attendees(attendee_map, plan_items[i].day, plan_items[i].meal) # <<>>

\* Where the result, or the return, of `agent` stands in a sequence.
Place(seq, agent) == CHOOSE i \in DOMAIN seq : seq[i].agent = agent

Reviewers == {"nutrition-reviewer", "pantry-reviewer"}

AfterCancel(j, stage) ==
  {i \in DOMAIN events :
     /\ events[i].job_id = j
     /\ events[i].stage = stage
     /\ \E k \in 1..(i - 1) :
          events[k].job_id = j /\ events[k].message = Text("Cancelled via API")}

\* C25: once the status of a job has become cancelled, the runner begins the
\* workflow of at most one further day, the day whose check had already
\* passed, and appends at most one further planned event before it stops.
BoundedCancellationStaleness ==
  \A j \in JobIds :
    /\ Cardinality(AfterCancel(j, "planning")) <= 1
    /\ Cardinality(AfterCancel(j, "planned")) <= 1

\* C26: at every point of a job run the events of the aggregated timeline
\* are numbered 0, 1, ..., n-1 in list order, over the days and over primary
\* and fallback segments alike, and each carries the id of the job, the day
\* of the run it was taken from, days never going back, and the origin
\* primary or fallback.
AggregatedTimelineNumbered ==
  \A j \in JobIds :
    LET timeline == runner[j].aggregated_timeline
    IN  \A i \in DOMAIN timeline :
          /\ timeline[i].sequence = i - 1
          /\ timeline[i].job_id = j
          /\ timeline[i].origin \in {"primary", "fallback"}
          /\ \E k \in DOMAIN runner[j].runs : runner[j].runs[k].day = timeline[i].day
          /\ i > 1 => DAY_INDEX[timeline[i - 1].day] <= DAY_INDEX[timeline[i].day]

\* Monday was planned from a primary and a fallback segment, Tuesday from a
\* primary one numbered on from Monday's.
TuesdayNumberedAfterFallback ==
  LET timeline == runner[NewestJob].aggregated_timeline
  IN  /\ Len(timeline) = 6
      /\ timeline[3].origin = "fallback" /\ timeline[3].day = "Mon"
      /\ timeline[5].origin = "primary" /\ timeline[5].day = "Tue"
      /\ timeline[6].sequence = 5

\* C27: within one generate() run each context key is set at most once and
\* by one writer; the two reviewers set different keys and neither reads a
\* key; and the context snapshot generate() returns holds every key with the
\* value of its one writer, the same in every run that returns.
ContextKeysPartitioned ==
  LET calls == wf.ctx
  IN  /\ \A i, k \in DOMAIN calls :
           calls[i].op = "set" /\ calls[k].op = "set" /\ calls[i].key = calls[k].key
             => i = k
      /\ \A i \in DOMAIN calls :
           calls[i].by \in Reviewers
             => /\ calls[i].op = "set"
                /\ \A k \in DOMAIN calls : calls[k].by \in Reviewers \ {calls[i].by}
                                             => calls[k].key # calls[i].key
      /\ wf.pc = "returned"
           => wf.snapshot =
                [key \in {"household_profile", "kitchen_tools", "plan_draft", ChefCuratorKey,
                          "nutrition_review", "pantry_review", "final_plan"} |->
                  CASE key = "household_profile" -> "household-profiler"
                    [] key = "kitchen_tools" -> "generate"
                    [] key = "plan_draft" -> "meal-architect"
                    [] key = ChefCuratorKey -> "chef-curator"
                    [] key = "nutrition_review" -> "nutrition-reviewer"
                    [] key = "pantry_review" -> "pantry-reviewer"
                    [] key = "final_plan" -> "plan-synthesizer"]

\* Both reviewers have set their keys and generate() has returned the snapshot.
BothReviewsInSnapshot ==
  /\ wf.pc = "returned"
  /\ \E i, k \in DOMAIN wf.ctx :
       /\ i < k
       /\ wf.ctx[i] = [op |-> "set", key |-> "nutrition_review", by |-> "nutrition-reviewer"]
       /\ wf.ctx[k] = [op |-> "set", key |-> "pantry_review", by |-> "pantry-reviewer"]
  /\ wf.snapshot["pantry_review"] = "pantry-reviewer"

\* C28: no two entries of the curated plan chef_build_menu returns have the
\* same title, whatever the titles, the meals and the length of its input.
CuratedTitlesUnique ==
  tool.pc = "done" /\ tool.name = "chef.build-menu"
    => \A i, k \in DOMAIN tool.output :
         tool.output[i].title = tool.output[k].title => i = k

\* The entries of `output` are those of `input`, one for one and in order:
\* same length, same day and meal at each index, and every key of an input
\* entry outside `overwritten` with the value it had.
PlanPreserved(input, output, overwritten) ==
  /\ Len(output) = Len(input)
  /\ \A i \in DOMAIN input :
       /\ output[i].day = input[i].day
       /\ output[i].meal = input[i].meal
       /\ \A key \in (DOMAIN input[i]) \ overwritten :
            key \in DOMAIN output[i] /\ output[i][key] = input[i][key]

\* C29: chef curation and pantry review each return a list as long as their
\* input, with the same day and meal at each index; every key of an input
\* entry keeps its value, but title and summary under curation; and the list
\* they were given is the same after the call.
EnrichmentPreservesPlan ==
  [][/\ ChefBuildMenu
       => /\ PlanPreserved(tool.input, tool'.output, {"title", "summary"})
          /\ tool'.input = tool.input
     /\ PantryReview
       => /\ PlanPreserved(tool.output, tool'.output.annotated_plan, {})
          /\ tool'.input.plan = tool.output]_vars

\* A curated plan of three entries has been through the pantry review, which
\* gave its entries a hint.
ThreeEntriesCuratedAndAnnotated ==
  /\ tool.pc = "done"
  /\ tool.name = "pantry-reviewer"
  /\ Len(tool.input.plan) = 3
  /\ Len(tool.output.annotated_plan) = 3
  /\ tool.output.annotated_plan[3].pantry_hint # None
  /\ tool.output.annotated_plan[3].chef_pairing = PAIRINGS[3]

\* C30: when use_leftovers is false, or no pantry item has a name, the
\* suggestions are empty and every annotated entry has pantry_hint None,
\* whatever pantry items were given; otherwise there are suggestions and the
\* entry at index i has the title of suggestion i mod their number.
PantryHintsRoundRobin ==
  tool.pc = "done" /\ tool.name = "pantry-reviewer"
    => LET suggestions == tool.output.suggestions.suggestions
           annotated == tool.output.annotated_plan
           named == {i \in DOMAIN tool.input.soon_expiring :
                       \E k \in DOMAIN tool.input.soon_expiring[i].name :
                         tool.input.soon_expiring[i].name[k] # " "}
       IN  IF ~tool.input.use_leftovers \/ named = {}
           THEN /\ suggestions = <<>>
                /\ \A i \in DOMAIN annotated : annotated[i].pantry_hint = None
           ELSE /\ suggestions # <<>>
                /\ \A i \in DOMAIN annotated :
                     annotated[i].pantry_hint
                       = suggestions[((i - 1) % Len(suggestions)) + 1].title

\* Leftovers were wanted and one pantry item had a name: the two suggestions
\* went to the first two entries and the third entry got the first again.
HintsWrapAround ==
  /\ tool.pc = "done"
  /\ tool.name = "pantry-reviewer"
  /\ tool.input.use_leftovers
  /\ Len(tool.output.suggestions.suggestions) = 2
  /\ Len(tool.output.annotated_plan) = 3
  /\ tool.output.annotated_plan[2].pantry_hint
       = tool.output.suggestions.suggestions[2].title
  /\ tool.output.annotated_plan[3].pantry_hint
       = tool.output.suggestions.suggestions[1].title

StageEvents(j, stage) ==
  {i \in DOMAIN events : events[i].job_id = j /\ events[i].stage = stage}

\* C33: in every state where a job is completed, its plan_id is the id of the
\* plan the job saved; the job has at most one completed event, and exactly
\* one once its task has ended; that event comes after the save and carries
\* the job's plan_id and the number of entries aggregated over the week.
CompletionRecorded ==
  \A j \in JobIds :
    jobs[j].status = "completed"
      => /\ \E p \in PlansOf(j) : p.id = jobs[j].plan_id
         /\ Cardinality(StageEvents(j, "completed")) <= 1
         /\ runner[j].pc = "done" => Cardinality(StageEvents(j, "completed")) = 1
         /\ \A i \in StageEvents(j, "completed") :
              /\ events[i].payload = [plan_id |-> jobs[j].plan_id,
                                      entry_count |-> Len(runner[j].aggregated_entries)]
              /\ \A k \in StageEvents(j, "planned") : k < i
              /\ Cardinality(StageEvents(j, "planned")) = Len(DAY_ORDER)

\* The job is completed, its task has ended with the completed event, and
\* more entries were aggregated than the seven of a week of dinners.
CompletedWithEntryCount ==
  /\ jobs[NewestJob].status = "completed"
  /\ runner[NewestJob].pc = "done"
  /\ Last(events).stage = "completed"
  /\ Last(events).payload.entry_count > Len(DAY_ORDER)
  /\ Last(events).payload.plan_id = jobs[NewestJob].plan_id

\* C34: a completed job has aggregated at least one entry for each of the
\* seven days, and the entries of every planned event, which are the entries
\* aggregated for its day, are not empty and all labelled with that day,
\* from the single-day run and from the whole-week run alike.
NoEmptyDayInCompletedJob ==
  \A j \in JobIds :
    /\ jobs[j].status = "completed"
         => \A day \in Range(DAY_ORDER) :
              \E e \in Range(runner[j].aggregated_entries) : e.day = day
    /\ \A i \in StageEvents(j, "planned") :
         /\ events[i].payload.entries # <<>>
         /\ \A e \in Range(events[i].payload.entries) :
              /\ e.day = events[i].payload.day
              /\ e \in Range(runner[j].aggregated_entries)
    /\ \A e \in Range(runner[j].aggregated_entries) :
         \/ \E i \in StageEvents(j, "planned") :
              e \in Range(events[i].payload.entries) /\ events[i].payload.day = e.day
         \/ runner[j].pc = "emit_planned" /\ e.day = Day(j)

\* The job is completed with Monday's entries taken from the single-day run
\* and Tuesday's from a whole-week run.
CompletedFromBothRuns ==
  /\ jobs[NewestJob].status = "completed"
  /\ \E i, k \in StageEvents(NewestJob, "planned") :
       /\ events[i].payload.day = "Mon"
       /\ events[i].payload.entries[1].title = "single"
       /\ events[k].payload.day = "Tue"
       /\ events[k].payload.entries = <<Entry("Tue", "Dinner", "week")>>

\* C35: whenever the runner has made a whole-week run for a day, after an
\* empty-plan error of the single-day run or after a result without entries
\* for the day, the job's log holds a fallback event naming that day.
FallbackIsAnnounced ==
  \A j \in JobIds : \A day \in Range(DAY_ORDER) :
    FallbackRuns(j, day) # {}
      => \E i \in StageEvents(j, "fallback") : events[i].payload.day = day

\* C36: the stream of an existing job ends in a poll exactly when the poll
\* finds the job completed, failed or cancelled and no event newer than the
\* last one delivered; it does not end while the job is pending or running;
\* and the stream of a job that does not exist ends at once, having
\* delivered no event.
StreamEndsWhenJobIsOver ==
  /\ [][stream.pc # "ended" /\ stream'.pc = "ended"
          => /\ stream.job_id \in JobIds
             /\ stream.status \in TerminalStatuses
             /\ jobs[stream.job_id].status \in TerminalStatuses
             /\ list_events_since(events, stream.job_id, stream.last_event_id) = <<>>]_vars
  /\ [][(/\ stream.pc = "list"
         /\ stream' # stream
         /\ stream.status \in TerminalStatuses
         /\ list_events_since(events, stream.job_id, stream.last_event_id) = <<>>)
          => stream'.pc = "ended"]_vars
  /\ [](stream.pc = "not_found" => stream.job_id \notin JobIds /\ stream.delivered = <<>>)
  /\ [](stream.pc \in {"poll", "list", "ended"} /\ stream.job_id \notin JobIds
          => stream.pc = "poll")

\* The cancelled events that cancel_job appended for job j.
CancelledViaApi(j) ==
  {i \in DOMAIN events :
     /\ events[i].job_id = j
     /\ events[i].stage = "cancelled"
     /\ events[i].message = Text("Cancelled via API")}

\* C37: a step of a cancel request on a job whose status is completed, failed
\* or cancelled leaves the job's status and plan_id as they are, and appends
\* no event unless it is the one event of the request that cancelled the job;
\* a request that found the job pending or running sets the status cancelled
\* and appends one cancelled event; no job has more than one such event.
CancelOfFinishedJobIsNoOp ==
  /\ [][cancels' # cancels /\ jobs[NewestJob].status \in TerminalStatuses
          => /\ jobs' = jobs
             /\ events' # events
                  => cancels.event > 0 /\ jobs[NewestJob].status = "cancelled"]_vars
  /\ [][cancels'.event > cancels.event
          => jobs'[NewestJob].status = "cancelled" /\ events' = events]_vars
  /\ [][cancels'.event < cancels.event
          => /\ Len(events') = Len(events) + 1
             /\ events'[Len(events')].stage = "cancelled"
             /\ events'[Len(events')].job_id = NewestJob]_vars
  /\ [](\A j \in JobIds : Cardinality(CancelledViaApi(j)) <= 1)

\* The requested days name the label: the first three letters of one of them,
\* blanks and case aside, are the label's.
RequestedDay(target_days, label) ==
  \E t \in 1..Len(target_days) :
    LET name == Lower(Strip(target_days[t]))
    IN  Len(name) >= 3 /\ SubSeq(name, 1, 3) = Lower(label)

\* The raw value names none of the labels, whatever its case and the blanks
\* around it, or is missing.
Unrecognized(value, labels) ==
  \/ value = None
  \/ \A l \in 1..Len(labels) :
       LET name == Lower(Strip(value))
       IN  ~(Len(name) >= 3 /\ SubSeq(name, 1, 3) = SubSeq(Lower(labels[l]), 1, 3))

\* C31: every entry _normalize_plan returns has a day of Mon..Sun that is one
\* of the requested days and a meal of Breakfast, Lunch, Dinner; an entry made
\* from a raw entry at position index whose day is missing or names no day has
\* the day at position (index div 3) mod 7 of the week, and one whose meal is
\* missing or names no meal has the meal at position index mod 3.
NormalizedPlanIsCanonical ==
  tool.pc = "done" /\ tool.name = "chef._normalize_plan"
    => \A k \in 1..Len(tool.output) :
         LET entry == tool.output[k]
             raw == tool.input.plan[entry.index + 1]
         IN  /\ entry.day \in Range(DAY_LABELS)
             /\ RequestedDay(tool.input.target_days, entry.day)
             /\ entry.meal \in Range(CHEF_MEAL_SLOTS)
             /\ Unrecognized(raw.day, DAY_LABELS)
                  => entry.day = DAY_LABELS[((entry.index \div 3) % 7) + 1]
             /\ Unrecognized(raw.meal, CHEF_MEAL_SLOTS)
                  => entry.meal = CHEF_MEAL_SLOTS[(entry.index % 3) + 1]

\* Tuesday alone was requested and the fourth raw entry, whose day and meal
\* are no day and no meal, is the only one returned: as Tuesday's breakfast.
FourthEntryBecomesTuesdayBreakfast ==
  /\ tool.pc = "done"
  /\ tool.name = "chef._normalize_plan"
  /\ tool.input.target_days = <<DAY_LABELS[2]>>
  /\ Len(tool.input.plan) = 4
  /\ Unrecognized(tool.input.plan[4].day, DAY_LABELS) /\ tool.input.plan[4].day # None
  /\ Unrecognized(tool.input.plan[4].meal, CHEF_MEAL_SLOTS) /\ tool.input.plan[4].meal # None
  /\ Len(tool.output) = 1
  /\ tool.output[1].index = 3
  /\ tool.output[1].day = DAY_LABELS[2]
  /\ tool.output[1].meal = CHEF_MEAL_SLOTS[1]

\* The stages of the dialog, in the order the assistant asks.
StageOrder == <<"ask_name", "ask_role", "ask_allergens", "ask_likes", "confirm">>

StageIndex(stage) == CHOOSE i \in 1..Len(StageOrder) : StageOrder[i] = stage

\* C38: a session's stage stays or moves to the next of ask_name, ask_role,
\* ask_allergens, ask_likes, confirm, or goes back to ask_name from confirm
\* with every field reset; a session past ask_name has a non-empty name; a
\* member is created only for a session at confirm, on the answer yes or y,
\* under the name the session collected; the return of create_member leaves
\* no session under the id, and a message handled once the member is created
\* finds no session and starts a new dialog.
DialogCreatesMemberOnceConfirmed ==
  /\ [][tool.pc = "dialog"
          => \A sid \in DOMAIN tool.sessions \cap DOMAIN tool'.sessions :
               LET old == tool.sessions[sid]
                   new == tool'.sessions[sid]
               IN  \/ StageIndex(new.stage) = StageIndex(old.stage) /\ new = old
                   \/ StageIndex(new.stage) = StageIndex(old.stage) + 1
                   \/ old.stage = "confirm" /\ new = AssistantState]_vars
  /\ [](tool.pc = "dialog"
          => \A sid \in DOMAIN tool.sessions :
               tool.sessions[sid].stage # "ask_name" => tool.sessions[sid].name # <<>>)
  /\ [][tool.pc = "dialog" /\ Len(tool'.creating) > Len(tool.creating)
          => LET call == tool'.creating[Len(tool'.creating)]
             IN  /\ call.session_id \in DOMAIN tool.sessions
                 /\ tool.sessions[call.session_id].stage = "confirm"
                 /\ call.answer \in {<<"y", "e", "s">>, <<"y">>}
                 /\ call.name # <<>>
                 /\ call.name = tool.sessions[call.session_id].name]_vars
  /\ [][tool.pc = "dialog" /\ Len(tool'.creating) < Len(tool.creating)
          => \A sid \in {"s1"} :
               (\E c \in 1..Len(tool.creating) : tool.creating[c].session_id = sid)
                 => sid \notin DOMAIN tool'.sessions]_vars
  /\ [][tool.pc = "dialog" /\ tool' # tool /\ Len(tool'.creating) >= Len(tool.creating)
          => \A c \in 1..Len(tool.creating) :
               tool.creating[c].session_id \notin DOMAIN tool.sessions]_vars

====
